---- MODULE Spec2Model ----
(***************************************************************************)
(* A model of the qubits library: the recorder (createOperations), the     *)
(* scope entry point (Q.use), the qubit manager, the circuit buffer, the   *)
(* compiler (Optimizer.prune, Transpiler.transpile, Compiler.compile) and  *)
(* the sparse simulator.                                                   *)
(*                                                                         *)
(* Conventions.                                                            *)
(*  - A qubit handle (a JS Symbol) is a positive integer; Null (0) stands  *)
(*    for the JS value null (the qubit of an IF/WHILE node).               *)
(*  - An instruction node is a record                                      *)
(*        [gate, arr, qs, params, cond, body]                              *)
(*    where arr says whether node.qubit is a JS array and qs lists the     *)
(*    handles (a single handle q is arr = FALSE, qs = <<q>>; null is       *)
(*    arr = FALSE, qs = <<Null>>), cond is <<>> or <<qubit, value>>.       *)
(*  - Angles are exact multiples of pi/2: the integer k stands for         *)
(*    k * pi/2.  Floating-point rounding is not modelled.                  *)
(***************************************************************************)
EXTENDS Integers, Sequences, FiniteSets, TLC

Null == 0

\* The JS value undefined, where a 0 or a 1 is expected.
Undefined == 0 - 1

\* Math.PI in units of pi/2.
Pi == 2
HalfPi == Pi \div 2
TwoPi == 2 * Pi

\* The JS remainder a % n (n > 0): the sign of the dividend.
JsRem(a, n) == IF a >= 0 THEN a % n ELSE -((-a) % n)

InSeq(x, s) == \E i \in DOMAIN s : s[i] = x

Node(gate, arr, qs, params, cond, body) ==
  [gate |-> gate, arr |-> arr, qs |-> qs, params |-> params,
   cond |-> cond, body |-> body]

\* Circuit.addOp's node for a single handle, a tuple of handles, a block.
G1(gate, q) == Node(gate, FALSE, <<q>>, <<>>, <<>>, <<>>)
G1p(gate, q, params) == Node(gate, FALSE, <<q>>, params, <<>>, <<>>)
G2(gate, a, b) == Node(gate, TRUE, <<a, b>>, <<>>, <<>>, <<>>)
G2p(gate, a, b, params) == Node(gate, TRUE, <<a, b>>, params, <<>>, <<>>)
G3(gate, a, b, c) == Node(gate, TRUE, <<a, b, c>>, <<>>, <<>>, <<>>)
Blk(gate, q, v, body) == Node(gate, FALSE, <<Null>>, <<>>, <<q, v>>, body)

\* A slot of `optimized` set to null.
Nil == Node("", FALSE, <<>>, <<>>, <<>>, <<>>)

(***************************************************************************)
(* Optimizer                                                               *)
(***************************************************************************)
COMMUTATION_RULES ==
  << [gate |-> "Z",  commutesWith |-> {"CNOT", "CZ"},            role |-> "control"],
     [gate |-> "S",  commutesWith |-> {"CNOT", "CZ", "T", "RZ"}, role |-> "control"],
     [gate |-> "T",  commutesWith |-> {"CNOT", "CZ", "S", "RZ"}, role |-> "control"],
     [gate |-> "RZ", commutesWith |-> {"CNOT", "CZ", "S", "T"},  role |-> "control"],
     [gate |-> "X",  commutesWith |-> {"CNOT"},                  role |-> "target"],
     [gate |-> "RX", commutesWith |-> {"CNOT"},                  role |-> "target"] >>

Rotations == {"RX", "RY", "RZ"}

selfInverses == {"H", "X", "Y", "Z", "CNOT", "CZ", "SWAP"}

isIdentity(op) ==
  IF Len(op.params) = 0 THEN FALSE
  ELSE IF op.gate \in Rotations THEN JsRem(op.params[1], TwoPi) = 0
  ELSE IF op.gate = "U3"
       THEN \A i \in DOMAIN op.params : JsRem(op.params[i], TwoPi) = 0
  ELSE FALSE

areQubitsEqual(a, b) ==
  \/ ~a.arr /\ ~b.arr /\ a.qs = b.qs
  \/ a.arr /\ b.arr /\ a.qs = b.qs

RuleMatches(r, gateA, gateB) ==
  \/ r.gate = gateA.gate /\ gateB.gate \in r.commutesWith
  \/ r.gate = gateB.gate /\ gateA.gate \in r.commutesWith

\* COMMUTATION_RULES.find: the index of the first matching rule, 0 if none.
FindRule(gateA, gateB) ==
  LET hits == {i \in DOMAIN COMMUTATION_RULES :
                 RuleMatches(COMMUTATION_RULES[i], gateA, gateB)}
  IN IF hits = {} THEN 0 ELSE CHOOSE i \in hits : \A j \in hits : i <= j

\* A lookback that nothing stops: what C14 must tell apart.
canCommuteAlways(gateA, gateB) == TRUE

canCommute(gateA, gateB) ==
  LET shared == SelectSeq(gateA.qs, LAMBDA q : InSeq(q, gateB.qs))
      r == FindRule(gateA, gateB)
      multiQubitGate == IF gateA.arr THEN gateA ELSE gateB
      \* qubit[0] of a Symbol is undefined: never the shared qubit
      isControl == multiQubitGate.arr /\ Len(multiQubitGate.qs) > 0
                   /\ multiQubitGate.qs[1] = shared[1]
  IN IF shared = <<>> THEN TRUE
     ELSE IF r = 0 THEN FALSE
     ELSE \/ COMMUTATION_RULES[r].role = "control" /\ isControl
          \/ COMMUTATION_RULES[r].role = "target" /\ ~isControl

WireGet(wireMap, q) == IF q \in DOMAIN wireMap THEN wireMap[q] ELSE <<>>

\* The lookback loop of #findCommutingPartner from wire position i down.
RECURSIVE Lookback(_, _, _, _)
Lookback(op, wire, optimized, i) ==
  IF i = 0 THEN 0
  ELSE LET candidate == optimized[wire[i]]
       IN IF candidate = Nil THEN Lookback(op, wire, optimized, i - 1)
          ELSE IF candidate.gate = op.gate /\ areQubitsEqual(candidate, op)
               THEN wire[i]
          ELSE IF ~canCommute(op, candidate) THEN 0
          ELSE Lookback(op, wire, optimized, i - 1)

\* A lookup without the arity filter: what C11 must tell apart.
findCommutingPartnerAnyArity(op, wireMap, optimized) ==
  LET wire == WireGet(wireMap, op.qs[1])
  IN Lookback(op, wire, optimized, Len(wire))

\* The partner's index in `optimized`, 0 for null.
findCommutingPartner(op, wireMap, optimized) ==
  IF Len(op.qs) # 1 THEN 0
  ELSE LET wire == WireGet(wireMap, op.qs[1])
       IN Lookback(op, wire, optimized, Len(wire))

\* wire.splice(wire.indexOf(idx), 1)
SpliceOut(wire, idx) ==
  LET hits == {i \in DOMAIN wire : wire[i] = idx}
  IN IF hits = {} THEN wire
     ELSE LET e == CHOOSE i \in hits : \A j \in hits : i <= j
          IN [i \in 1..(Len(wire) - 1) |-> IF i < e THEN wire[i] ELSE wire[i + 1]]

RECURSIVE removeFromWiresAt(_, _, _, _)
removeFromWiresAt(idx, qs, wireMap, k) ==
  IF k > Len(qs) THEN wireMap
  ELSE removeFromWiresAt(idx, qs,
         [wireMap EXCEPT ![qs[k]] = SpliceOut(@, idx)], k + 1)

removeFromWires(idx, op, wireMap) == removeFromWiresAt(idx, op.qs, wireMap, 1)

RECURSIVE PushOnWires(_, _, _, _)
PushOnWires(newIdx, qs, wireMap, k) ==
  IF k > Len(qs) THEN wireMap
  ELSE LET q == qs[k]
           w == [x \in DOMAIN wireMap \cup {q} |->
                   IF x = q THEN Append(WireGet(wireMap, q), newIdx)
                   ELSE wireMap[x]]
       IN PushOnWires(newIdx, qs, w, k + 1)

(***************************************************************************)
(* The state of one prune sweep.  `input` is the instruction list, whose   *)
(* nodes prune rewrites in place (partner.gate = ..., partner.params[0] =  *)
(* ...): origin[i] is the position in `input` of the node in slot i of     *)
(* `optimized`, so a rewrite of a slot is a rewrite of that input node.    *)
(***************************************************************************)
PruneInit(instructions) ==
  [optimized |-> <<>>, origin |-> <<>>, wireMap |-> << >>,
   input |-> instructions]

\* optimized[idx] = null
NullSlot(st, idx) ==
  [st EXCEPT !.wireMap = removeFromWires(idx, st.optimized[idx], st.wireMap),
             !.optimized[idx] = Nil]

\* A rewrite of the partner node, seen through `optimized` and through `input`.
Rewrite(st, idx, node) ==
  [st EXCEPT !.optimized[idx] = node, !.input[st.origin[idx]] = node]

\* A merge that adds the angles without the remainder: what C13 must tell
\* apart.
mergeGatesNoWrap(partnerIdx, op, st) ==
  LET partner == st.optimized[partnerIdx]
      merged == IF op.gate \in Rotations
                THEN [partner EXCEPT !.params[1] = partner.params[1] + op.params[1]]
                ELSE partner
      st1 == Rewrite(st, partnerIdx, merged)
  IN IF isIdentity(merged) THEN NullSlot(st1, partnerIdx) ELSE st1

mergeGates(partnerIdx, op, st) ==
  LET partner == st.optimized[partnerIdx]
      merged == IF op.gate \in Rotations
                THEN [partner EXCEPT !.params[1] =
                        JsRem(partner.params[1] + op.params[1], TwoPi)]
                ELSE partner
      st1 == Rewrite(st, partnerIdx, merged)
  IN IF isIdentity(merged) THEN NullSlot(st1, partnerIdx) ELSE st1

PushOp(st, op, k) ==
  LET newIdx == Len(st.optimized) + 1
  IN [st EXCEPT !.optimized = Append(@, op),
                !.origin = Append(@, k),
                !.wireMap = PushOnWires(newIdx, op.qs, @, 1)]

\* An iteration that does not skip an identity but appends it, for the final
\* filter to drop: what C27 must tell apart.
PruneStepNoIdentitySkip(st, k) ==
  LET op == st.input[k]
      partnerIdx == findCommutingPartner(op, st.wireMap, st.optimized)
      partner == st.optimized[partnerIdx]
  IN IF partnerIdx = 0 THEN PushOp(st, op, k)
     ELSE IF op.gate \in Rotations THEN mergeGates(partnerIdx, op, st)
     ELSE IF op.gate = "S" /\ partner.gate = "S"
          THEN Rewrite(st, partnerIdx, [partner EXCEPT !.gate = "Z"])
     ELSE IF op.gate = "T" /\ partner.gate = "T"
          THEN Rewrite(st, partnerIdx, [partner EXCEPT !.gate = "S"])
     ELSE IF op.gate = partner.gate /\ op.gate \in selfInverses
          THEN NullSlot(st, partnerIdx)
     ELSE PushOp(st, op, k)

\* One iteration of prune's loop, on the k-th input instruction.
PruneStep(st, k) ==
  LET op == st.input[k]
      partnerIdx == findCommutingPartner(op, st.wireMap, st.optimized)
      partner == st.optimized[partnerIdx]
  IN IF isIdentity(op) THEN st
     ELSE IF partnerIdx = 0 THEN PushOp(st, op, k)
     ELSE IF op.gate \in Rotations THEN mergeGates(partnerIdx, op, st)
     ELSE IF op.gate = "S" /\ partner.gate = "S"
          THEN Rewrite(st, partnerIdx, [partner EXCEPT !.gate = "Z"])
     ELSE IF op.gate = "T" /\ partner.gate = "T"
          THEN Rewrite(st, partnerIdx, [partner EXCEPT !.gate = "S"])
     ELSE IF op.gate = partner.gate /\ op.gate \in selfInverses
          THEN NullSlot(st, partnerIdx)
     ELSE PushOp(st, op, k)

RECURSIVE PruneLoop(_, _)
PruneLoop(st, k) ==
  IF k > Len(st.input) THEN st ELSE PruneLoop(PruneStep(st, k), k + 1)

PruneSweep(instructions) == PruneLoop(PruneInit(instructions), 1)

\* The slots that survive the final filter, in order.
KeptSlots(st) ==
  SelectSeq([i \in 1..Len(st.optimized) |-> i],
            LAMBDA i : st.optimized[i] # Nil /\ ~isIdentity(st.optimized[i]))

PruneOut(st) ==
  LET kept == KeptSlots(st) IN [i \in 1..Len(kept) |-> st.optimized[kept[i]]]

\* For each output node, the position of that node in the input list.
PruneOutOrigin(st) ==
  LET kept == KeptSlots(st) IN [i \in 1..Len(kept) |-> st.origin[kept[i]]]

prune(instructions) == PruneOut(PruneSweep(instructions))

(***************************************************************************)
(* Transpiler                                                              *)
(***************************************************************************)
DecomposedGates == {"H", "X", "Y", "Z", "RX", "RY", "RZ", "SWAP", "CZ"}

\* A U3 with phi and lambda exchanged: what the table of C9 must tell apart.
U3Swapped(q, theta, phi, lambda) == G1p("U3", q, <<theta, lambda, phi>>)

U3(q, theta, phi, lambda) == G1p("U3", q, <<theta, phi, lambda>>)

decompose(op) ==
  LET qubit == op.qs IN
  CASE op.gate = "H" -> << U3(qubit[1], HalfPi, 0, Pi) >>
    [] op.gate = "X" -> << U3(qubit[1], Pi, 0, Pi) >>
    [] op.gate = "Y" -> << U3(qubit[1], Pi, HalfPi, HalfPi) >>
    [] op.gate = "Z" -> << U3(qubit[1], 0, 0, Pi) >>
    [] op.gate = "RX" -> << U3(qubit[1], op.params[1], -HalfPi, HalfPi) >>
    [] op.gate = "RY" -> << U3(qubit[1], op.params[1], 0, 0) >>
    [] op.gate = "RZ" -> << U3(qubit[1], 0, 0, op.params[1]) >>
    [] op.gate = "SWAP" -> << G2("CNOT", qubit[1], qubit[2]),
                              G2("CNOT", qubit[2], qubit[1]),
                              G2("CNOT", qubit[1], qubit[2]) >>
    [] op.gate = "CZ" -> << U3(qubit[2], HalfPi, 0, Pi),
                            G2("CNOT", qubit[1], qubit[2]),
                            U3(qubit[2], HalfPi, 0, Pi) >>
    [] OTHER -> << op >>

RECURSIVE transpileFrom(_, _)
transpileFrom(instructions, k) ==
  IF k > Len(instructions) THEN <<>>
  ELSE decompose(instructions[k]) \o transpileFrom(instructions, k + 1)

transpile(instructions) == transpileFrom(instructions, 1)

\* For each node of transpile's output: the position in the input of the very
\* node it is (the default case returns [op] itself), 0 for a node made new.
RECURSIVE TranspileOrigin(_, _)
TranspileOrigin(instructions, k) ==
  IF k > Len(instructions) THEN <<>>
  ELSE (IF instructions[k].gate \in DecomposedGates
        THEN [i \in 1..Len(decompose(instructions[k])) |-> 0]
        ELSE << k >>) \o TranspileOrigin(instructions, k + 1)

(***************************************************************************)
(* Compiler                                                                *)
(***************************************************************************)
compile(instructions) == prune(transpile(prune(instructions)))

(***************************************************************************)
(* Simulator                                                               *)
(*                                                                         *)
(* A simulator is a record [qubitMap, amps, results]:                      *)
(*   qubitMap  the scope's handles in allocation order; the handle at      *)
(*             place k + 1 has position k, i.e. bit k of a basis index;    *)
(*   amps      the sparse state: a function from the active basis indices  *)
(*             to their amplitudes <<re, im>>;                             *)
(*   results   the measurement cache: a function from the measured         *)
(*             handles to 0 or 1.                                          *)
(* Amplitudes are exact Gaussian integers up to one positive factor shared *)
(* by all entries (the code keeps the sum of |amp|^2 at 1, the model keeps *)
(* the smallest integer multiple of that vector), so a probability is the  *)
(* ratio of two sums of squares.  The gates whose matrices have entries in *)
(* Z[i] up to one common factor are covered: all of GATES except T, with   *)
(* angles that are multiples of pi/2.  On such states every non-zero       *)
(* |amp|^2 is far above the prune threshold 1e-15 and above the effective  *)
(* epsilon 1e-13, so #prune drops exactly the zero entries and isZero is   *)
(* "prob1 = 0".                                                            *)
(***************************************************************************)
Pow2(k) == 2 ^ k

BitIsSet(idx, bit) == (idx \div bit) % 2 = 1

\* idx ^ bit, idx | bit, idx & ~bit for a single-bit mask.
XorBit(idx, bit) == IF BitIsSet(idx, bit) THEN idx - bit ELSE idx + bit
OrBit(idx, bit) == IF BitIsSet(idx, bit) THEN idx ELSE idx + bit
ClearBit(idx, bit) == IF BitIsSet(idx, bit) THEN idx - bit ELSE idx

CAdd(a, b) == << a[1] + b[1], a[2] + b[2] >>
CMul(a, b) == << a[1] * b[1] - a[2] * b[2], a[1] * b[2] + a[2] * b[1] >>
CZero == << 0, 0 >>
MagSq(a) == a[1] * a[1] + a[2] * a[2]

Abs(x) == IF x < 0 THEN -x ELSE x

RECURSIVE Gcd(_, _)
Gcd(a, b) == IF b = 0 THEN a ELSE Gcd(b, a % b)

RECURSIVE GcdOver(_, _)
GcdOver(amps, S) ==
  IF S = {} THEN 0
  ELSE LET i == CHOOSE x \in S : TRUE
       IN Gcd(Gcd(Abs(amps[i][1]), Abs(amps[i][2])), GcdOver(amps, S \ {i}))

\* #prune on exact amplitudes, and the common factor taken out.
Pruned(amps) ==
  LET live == {i \in DOMAIN amps : amps[i] # CZero}
      g == GcdOver(amps, live)
  IN [i \in live |-> << amps[i][1] \div g, amps[i][2] \div g >>]

RECURSIVE SumMagSq(_, _)
SumMagSq(amps, S) ==
  IF S = {} THEN 0
  ELSE LET i == CHOOSE x \in S : TRUE
       IN MagSq(amps[i]) + SumMagSq(amps, S \ {i})

HasQubit(sim, q) == InSeq(q, sim.qubitMap)

\* 1n << BigInt(qubitMap.get(q))
BitOf(sim, q) ==
  Pow2((CHOOSE k \in DOMAIN sim.qubitMap : sim.qubitMap[k] = q) - 1)

AllIndices(sim) == 0..(Pow2(Len(sim.qubitMap)) - 1)

AmpAt(amps, idx) == IF idx \in DOMAIN amps THEN amps[idx] ELSE CZero

\* cos and sin of k * pi/2.
CosQ(k) == CASE k % 4 = 0 -> 1 [] k % 4 = 2 -> -1 [] OTHER -> 0
SinQ(k) == CASE k % 4 = 1 -> 1 [] k % 4 = 3 -> -1 [] OTHER -> 0

\* cos and sin of (k * pi/2) / 2, times sqrt(2) when k is odd.
CosH(k) == CASE k % 8 \in {0, 1, 7} -> 1 [] k % 8 \in {3, 4, 5} -> -1 [] OTHER -> 0
SinH(k) == CASE k % 8 \in {1, 2, 3} -> 1 [] k % 8 \in {5, 6, 7} -> -1 [] OTHER -> 0

(***************************************************************************)
(* GATES: the 2x2 matrices, row-major <<g00, g01, g10, g11>>, each up to a *)
(* positive factor common to its four entries.                             *)
(***************************************************************************)
Gates1 == {"H", "X", "Y", "Z", "S", "RX", "RY", "RZ", "U3"}

GATES(gateName, params) ==
  CASE gateName = "H" -> << <<1, 0>>, <<1, 0>>, <<1, 0>>, <<-1, 0>> >>
    [] gateName = "X" -> << <<0, 0>>, <<1, 0>>, <<1, 0>>, <<0, 0>> >>
    [] gateName = "Y" -> << <<0, 0>>, <<0, -1>>, <<0, 1>>, <<0, 0>> >>
    [] gateName = "Z" -> << <<1, 0>>, <<0, 0>>, <<0, 0>>, <<-1, 0>> >>
    [] gateName = "S" -> << <<1, 0>>, <<0, 0>>, <<0, 0>>, <<0, 1>> >>
    [] gateName = "RX" ->
         LET c == CosH(params[1])  s == -SinH(params[1])
         IN << <<c, 0>>, <<0, s>>, <<0, s>>, <<c, 0>> >>
    [] gateName = "RY" ->
         LET c == CosH(params[1])  s == SinH(params[1])
         IN << <<c, 0>>, <<-s, 0>>, <<s, 0>>, <<c, 0>> >>
    [] gateName = "RZ" ->
         LET c == CosH(params[1])  s == SinH(params[1])
         IN << <<c, -s>>, <<0, 0>>, <<0, 0>>, <<c, s>> >>
    [] gateName = "U3" ->
         LET c == CosH(params[1])  s == SinH(params[1])
             phi == params[2]  lambda == params[3]
         IN << <<c, 0>>,
               << -s * CosQ(lambda), -s * SinQ(lambda) >>,
               << s * CosQ(phi), s * SinQ(phi) >>,
               << c * CosQ(phi + lambda), c * SinQ(phi + lambda) >> >>

\* applyGate: the scatter of every entry through the matrix, then #prune.
applyGate(sim, gateName, qubitId, params) ==
  LET targetBit == BitOf(sim, qubitId)
      matrix == GATES(gateName, params)
      new == [t \in AllIndices(sim) |->
                LET row == IF BitIsSet(t, targetBit) THEN 1 ELSE 0
                    base == ClearBit(t, targetBit)
                IN CAdd(CMul(matrix[row * 2 + 1], AmpAt(sim.amps, base)),
                        CMul(matrix[row * 2 + 2],
                             AmpAt(sim.amps, OrBit(base, targetBit))))]
  IN [sim EXCEPT !.amps = Pruned(new)]

\* The index permutations of apply2QubitGate.
\* A CNOT that sets the target instead of flipping it: what C10 must tell
\* apart.
CnotIndexSet(idx, bit1, bit2) ==
  IF BitIsSet(idx, bit1) THEN OrBit(idx, bit2) ELSE idx

CnotIndex(idx, bit1, bit2) ==
  IF BitIsSet(idx, bit1) THEN XorBit(idx, bit2) ELSE idx

SwapIndex(idx, bit1, bit2) ==
  IF BitIsSet(idx, bit1) # BitIsSet(idx, bit2)
  THEN XorBit(XorBit(idx, bit1), bit2) ELSE idx

RECURSIVE CSum(_, _)
CSum(amps, S) ==
  IF S = {} THEN CZero
  ELSE LET i == CHOOSE x \in S : TRUE IN CAdd(amps[i], CSum(amps, S \ {i}))

\* #accumulate: every entry moved to the index F gives it, entries that meet
\* at one index added up.
Permuted(sim, F(_)) ==
  LET img == {F(i) : i \in DOMAIN sim.amps}
  IN [t \in img |-> CSum(sim.amps, {i \in DOMAIN sim.amps : F(i) = t})]

Gates2 == {"CZ", "CNOT", "SWAP", "RZZ"}

apply2QubitGate(sim, gateName, q1, q2, params) ==
  LET bit1 == BitOf(sim, q1)
      bit2 == BitOf(sim, q2)
      both(idx) == BitIsSet(idx, bit1) /\ BitIsSet(idx, bit2)
      same(idx) == BitIsSet(idx, bit1) = BitIsSet(idx, bit2)
      c == CosH(params[1])
      s == SinH(params[1])
      new ==
        CASE gateName = "CZ" ->
               [i \in DOMAIN sim.amps |->
                  IF both(i) THEN << -sim.amps[i][1], -sim.amps[i][2] >>
                  ELSE sim.amps[i]]
          [] gateName = "CNOT" ->
               Permuted(sim, LAMBDA i : CnotIndex(i, bit1, bit2))
          [] gateName = "SWAP" ->
               Permuted(sim, LAMBDA i : SwapIndex(i, bit1, bit2))
          [] gateName = "RZZ" ->
               [i \in DOMAIN sim.amps |->
                  CMul(IF same(i) THEN <<c, -s>> ELSE <<c, s>>, sim.amps[i])]
  IN [sim EXCEPT !.amps = Pruned(new)]

\* base | offsets[row] of apply3QubitGate: offsets = [0, bit3, bit2, bit2|bit3,
\* bit1, bit1|bit3, bit1|bit2, mask].
Offset3(base, row, bit1, bit2, bit3) ==
  LET a == IF row \div 4 = 1 THEN OrBit(base, bit1) ELSE base
      b == IF (row \div 2) % 2 = 1 THEN OrBit(a, bit2) ELSE a
  IN IF row % 2 = 1 THEN OrBit(b, bit3) ELSE b

\* GATES.CCX is the 0/1 matrix whose column 6 has its 1 in row 7 and whose
\* column 7 has it in row 6, every other column c in row c: the scatter moves
\* each entry to the one row of its column.
CcxIndex(idx, bit1, bit2, bit3) ==
  LET col == (IF BitIsSet(idx, bit1) THEN 4 ELSE 0)
             + (IF BitIsSet(idx, bit2) THEN 2 ELSE 0)
             + (IF BitIsSet(idx, bit3) THEN 1 ELSE 0)
      row == IF col = 6 THEN 7 ELSE IF col = 7 THEN 6 ELSE col
      base == ClearBit(ClearBit(ClearBit(idx, bit1), bit2), bit3)
  IN Offset3(base, row, bit1, bit2, bit3)

apply3QubitGate(sim, gateName, q1, q2, q3, params) ==
  LET bit1 == BitOf(sim, q1)
      bit2 == BitOf(sim, q2)
      bit3 == BitOf(sim, q3)
  IN [sim EXCEPT !.amps =
        Pruned(Permuted(sim, LAMBDA i : CcxIndex(i, bit1, bit2, bit3)))]

\* #getProb1 as a fraction: the weight of the entries with the bit set, and
\* the weight of all entries.
Weight1(sim, qubitId) ==
  SumMagSq(sim.amps, {i \in DOMAIN sim.amps : BitIsSet(i, BitOf(sim, qubitId))})

WeightAll(sim) == SumMagSq(sim.amps, DOMAIN sim.amps)

isZero(sim, qubitId) == Weight1(sim, qubitId) = 0

\* #collapse: the entries that match the outcome (the rescaling is the common
\* factor).
collapse(sim, qubitId, result) ==
  LET target == BitOf(sim, qubitId)
      keep == {i \in DOMAIN sim.amps : BitIsSet(i, target) = (result = 1)}
  IN [sim EXCEPT !.amps = Pruned([i \in keep |-> sim.amps[i]])]

\* measure without a noise model: Math.random() < prob1 can give 1 when
\* prob1 > 0 and 0 when prob1 < 1.
MeasureOutcomes(sim, qubitId) ==
  {r \in {0, 1} : IF r = 1 THEN Weight1(sim, qubitId) > 0
                  ELSE Weight1(sim, qubitId) < WeightAll(sim)
                       \/ WeightAll(sim) = 0}

getResult(sim, qubitId) ==
  IF qubitId \in DOMAIN sim.results THEN sim.results[qubitId] ELSE Undefined

\* new Simulator(qubits): the single entry {index 0, amplitude 1}.
NewSimulator(qubits) ==
  [qubitMap |-> qubits, amps |-> [i \in {0} |-> <<1, 0>>], results |-> << >>]

SetResult(sim, q, res) ==
  [sim EXCEPT !.results = [x \in DOMAIN sim.results \cup {q} |->
                             IF x = q THEN res ELSE sim.results[x]]]

(***************************************************************************)
(* Simulator.run, one instruction at a time.  The call stack of run is a   *)
(* sequence of frames [code, i]: the list a call of run iterates over and  *)
(* the place of its next instruction.  RunStep gives the possible          *)
(* successors of one step: a measurement has up to two; `thrown` is set    *)
(* when the instruction raises (BigInt(undefined) for a handle that is not *)
(* in qubitMap, matrix[gIdx] for a gate that is not in GATES), which       *)
(* happens before the instruction changes anything.                        *)
(***************************************************************************)
Frame(code) == [code |-> code, i |-> 1]

Top(stack) == stack[Len(stack)]

Advance(stack) == [stack EXCEPT ![Len(stack)].i = @ + 1]

Pop(stack) == SubSeq(stack, 1, Len(stack) - 1)

\* A condition that reads a qubit never measured as 0: what C17 must tell
\* apart.
CondHoldsUnsetAsZero(sim, op) ==
  (IF op.cond[1] \in DOMAIN sim.results THEN sim.results[op.cond[1]] ELSE 0)
    = op.cond[2]

CondHolds(sim, op) == getResult(sim, op.cond[1]) = op.cond[2]

Raises(sim, op) ==
  IF op.arr
  THEN \/ \E k \in 1..Len(op.qs) : ~HasQubit(sim, op.qs[k])
       \/ Len(op.qs) = 3 /\ op.gate # "CCX" /\ sim.amps # << >>
       \/ Len(op.qs) # 3 /\ op.gate \notin Gates2 /\ sim.amps # << >>
  ELSE \/ ~HasQubit(sim, op.qs[1])
       \/ op.gate \notin Gates1 \cup {"T", "RESET", "MEASURE"} /\ sim.amps # << >>

\* The simulators one non-control instruction can leave.
Execute(sim, op) ==
  IF op.arr
  THEN IF Len(op.qs) = 3
       THEN {apply3QubitGate(sim, op.gate, op.qs[1], op.qs[2], op.qs[3], op.params)}
       ELSE {apply2QubitGate(sim, op.gate, op.qs[1], op.qs[2], op.params)}
  ELSE IF op.gate = "RESET"
       THEN {IF r = 1 THEN applyGate(collapse(sim, op.qs[1], r), "X", op.qs[1], <<>>)
                      ELSE collapse(sim, op.qs[1], r) :
             r \in MeasureOutcomes(sim, op.qs[1])}
  ELSE IF op.gate = "MEASURE"
       THEN {SetResult(collapse(sim, op.qs[1], r), op.qs[1], r) :
             r \in MeasureOutcomes(sim, op.qs[1])}
  ELSE {applyGate(sim, op.gate, op.qs[1], op.params)}

\* A run whose WHILE checks its condition once, as IF does: what C18 must tell
\* apart.
RunStepWhileOnce(sim, stack) ==
  LET top == Top(stack)
      op == top.code[top.i]
      Go(s, st) == [sim |-> s, stack |-> st, thrown |-> FALSE]
  IN IF top.i > Len(top.code) THEN {Go(sim, Pop(stack))}
     ELSE IF op.gate \in {"IF", "WHILE"}
          THEN IF CondHolds(sim, op)
               THEN {Go(sim, Append(Advance(stack), Frame(op.body)))}
               ELSE {Go(sim, Advance(stack))}
     ELSE IF Raises(sim, op)
          THEN {[sim |-> sim, stack |-> stack, thrown |-> TRUE]}
     ELSE {Go(s, Advance(stack)) : s \in Execute(sim, op)}

RunStep(sim, stack) ==
  LET top == Top(stack)
      op == top.code[top.i]
      Go(s, st) == [sim |-> s, stack |-> st, thrown |-> FALSE]
  IN IF top.i > Len(top.code) THEN {Go(sim, Pop(stack))}
     ELSE IF op.gate = "IF"
          THEN IF CondHolds(sim, op)
               THEN {Go(sim, Append(Advance(stack), Frame(op.body)))}
               ELSE {Go(sim, Advance(stack))}
     ELSE IF op.gate = "WHILE"
          THEN IF CondHolds(sim, op)
               THEN {Go(sim, Append(stack, Frame(op.body)))}
               ELSE {Go(sim, Advance(stack))}
     ELSE IF Raises(sim, op)
          THEN {[sim |-> sim, stack |-> stack, thrown |-> TRUE]}
     ELSE {Go(s, Advance(stack)) : s \in Execute(sim, op)}

\* All sequences over S of length at most n.
RECURSIVE SeqsUpTo(_, _)
SeqsUpTo(S, n) ==
  IF n = 0 THEN {<<>>}
  ELSE LET shorter == SeqsUpTo(S, n - 1)
       IN shorter \cup {Append(s, x) : s \in shorter, x \in S}

VARIABLES
  \* the compiler's functions applied to a list
  cin,      \* the instruction list given
  cfn,      \* the function applied to it: "none", "prune", "transpile", "compile"
  cout,     \* what the function returned
  \* SWAP against its decomposition, on one basis index
  widx,     \* the basis index both start from
  wab,      \* the two handles <<a, b>>
  wcnot,    \* the index after wk of the decomposition's CNOTs
  wk,       \* how many of them were applied
  wswap,    \* the index after SWAP, or Undefined before it
  \* one instruction list run as is and pruned
  sir,      \* the instruction list
  sphase,   \* "raw": running sir, "pruned": running prune(sir), "done"
  ssim,     \* the simulator of the run in progress
  sstack,   \* its call stack
  sraw,     \* the simulator the raw run ended with
  \* the scopes of Q.use
  registry, \* QubitManager.#registry of the process-wide manager
  minted,   \* how many Symbols allocate has minted; the next one is minted + 1
  scopes,   \* the running calls of Q.use, the innermost last
  run,      \* the call stack of Simulator.run while a flush is running
  last,     \* what happened last: a recorder call, a return of m, an exit of Q.use
  ncalls,   \* how many recorder calls were made
  nuses,    \* how many times Q.use was called
  \* one Circuit and the snapshots taken of it
  circ,     \* the heap of arrays and the array Circuit.#ops refers to
  snaps,    \* the snapshots returned: the array and what had been appended
  kappended,\* the nodes appended since construction or the last clear
  ksteps,   \* how many calls were made on the circuit
  \* one QubitManager called directly
  mreturned,\* the handles allocate has returned
  mreleased,\* the handles whose release returned without throwing
  \* one instruction list run by Simulator.run, with what it executed
  rlog,     \* the non-control instructions executed, in order
  rdoomed,  \* a WHILE was entered whose body cannot change its condition
  rnoisy,   \* the simulator has a noise model with a readout error
  rprofile, \* the NoiseModel the simulator was constructed with, or Null
  \* one simulator with its indices in 64-bit words
  bcount,   \* how many qubits the scope allocated, 0 before Q.use
  bsim,     \* the simulator: its entries in buffer order, and the norm's scale
  blast,    \* the last operation, with what it could have measured before
  bsteps    \* how many gates and measurements were applied

cvars == << cin, cfn, cout >>
wvars == << widx, wab, wcnot, wk, wswap >>
svars == << sir, sphase, ssim, sstack, sraw >>
qvars == << registry, minted, scopes, run, last, ncalls, nuses >>
kvars == << circ, snaps, kappended, ksteps >>
mvars == << mreturned, mreleased >>
rvars == << rlog, rdoomed, rnoisy, rprofile >>
bvars == << bcount, bsim, blast, bsteps >>
xvars == << kvars, mvars, rvars, bvars >>
vars == << cvars, wvars, svars, qvars, xvars >>

CIdle == cin = <<>> /\ cfn = "none" /\ cout = <<>>
WIdle == widx = 0 /\ wab = <<>> /\ wcnot = 0 /\ wk = 0 /\ wswap = Undefined
SIdle == sir = <<>> /\ sphase = "done" /\ ssim = << >> /\ sstack = <<>>
         /\ sraw = << >>
KIdle == circ = << >> /\ snaps = <<>> /\ kappended = <<>> /\ ksteps = 0
MIdle == mreturned = {} /\ mreleased = {}
RIdle == rlog = <<>> /\ rdoomed = FALSE /\ rnoisy = FALSE /\ rprofile = Null
BIdle == bcount = 0 /\ bsim = << >> /\ blast = [event |-> "none"] /\ bsteps = 0
XIdle == KIdle /\ MIdle /\ RIdle /\ BIdle
QIdle == /\ registry = {} /\ minted = 0 /\ scopes = <<>> /\ run = <<>>
         /\ last = [event |-> "none"] /\ ncalls = 0 /\ nuses = 0

(***************************************************************************)
(* Transpiler.transpile on every list of at most MaxTrLen instructions of  *)
(* TrPool: one instruction of every gate name the recorder emits, and one  *)
(* name that is not a gate.                                                *)
(***************************************************************************)
MaxTrLen == 2

TrPool ==
  { G1("H", 1), G1("X", 1), G1("Y", 2), G1("Z", 1), G1("S", 1), G1("T", 2),
    G1p("RX", 1, <<1>>), G1p("RY", 2, <<3>>), G1p("RZ", 1, <<2>>),
    G1p("U3", 1, <<1, 2, 3>>), G2("CNOT", 1, 2), G2("CZ", 1, 2),
    G2("SWAP", 2, 1), G2p("RZZ", 1, 2, <<1>>), G3("CCX", 1, 2, 3),
    G1("RESET", 1), G1("MEASURE", 2), G1("GHOST", 1),
    Blk("IF", 1, 1, << G1("H", 2), G2("CZ", 1, 2) >>),
    Blk("WHILE", 2, 0, << G1("X", 1), G2("SWAP", 1, 2) >>) }

TrInit == /\ cin \in SeqsUpTo(TrPool, MaxTrLen)
          /\ cfn = "none" /\ cout = <<>>
          /\ WIdle /\ SIdle /\ QIdle /\ XIdle

DoTranspile == /\ cfn = "none"
               /\ cfn' = "transpile"
               /\ cout' = transpile(cin)
               /\ UNCHANGED << cin, wvars, svars, qvars, xvars >>

TrNext == DoTranspile

SpecTranspile == TrInit /\ [][TrNext]_vars

(***************************************************************************)
(* Compiler.compile (and Optimizer.prune alone) on every list of at most   *)
(* MaxIrLen instructions of IrPool.                                        *)
(***************************************************************************)
MaxIrLen == 3

IrPool ==
  { G1("H", 1), G1("X", 1), G1("Z", 1), G1("S", 1), G1("T", 1),
    G1p("RZ", 1, <<1>>), G1p("RX", 2, <<2>>),
    G2("CNOT", 1, 2), G2("CZ", 1, 2), G2("SWAP", 1, 2),
    G1("MEASURE", 1), Blk("IF", 1, 1, << G1("X", 2) >>) }

CompInit == /\ cin \in SeqsUpTo(IrPool, MaxIrLen)
            /\ cfn = "none" /\ cout = <<>>
            /\ WIdle /\ SIdle /\ QIdle /\ XIdle

DoPrune == /\ cfn = "none"
           /\ cfn' = "prune"
           /\ cout' = prune(cin)
           /\ UNCHANGED << cin, wvars, svars, qvars, xvars >>

DoCompile == /\ cfn = "none"
             /\ cfn' = "compile"
             /\ cout' = compile(cin)
             /\ UNCHANGED << cin, wvars, svars, qvars, xvars >>

CompNext == DoPrune \/ DoCompile

SpecCompile == CompInit /\ [][CompNext]_vars

\* C9: transpile(list) is the in-order concatenation of the table's
\* expansions: H, X, Y, Z, RX, RY, RZ become one U3 on the same qubit with the
\* tabled parameters, SWAP(a,b) becomes CNOT(a,b), CNOT(b,a), CNOT(a,b), CZ(c,t)
\* becomes U3(pi/2,0,pi) on t, CNOT(c,t), U3(pi/2,0,pi) on t, and every other
\* instruction is passed through as the same single instruction, an IF or
\* WHILE with its body as it was.
TableU3(q, params) ==
  [gate |-> "U3", arr |-> FALSE, qs |-> <<q>>, params |-> params,
   cond |-> <<>>, body |-> <<>>]

TableCnot(c, t) ==
  [gate |-> "CNOT", arr |-> TRUE, qs |-> <<c, t>>, params |-> <<>>,
   cond |-> <<>>, body |-> <<>>]

TableExpansion(op) ==
  CASE op.gate = "H" -> << TableU3(op.qs[1], <<1, 0, 2>>) >>
    [] op.gate = "X" -> << TableU3(op.qs[1], <<2, 0, 2>>) >>
    [] op.gate = "Y" -> << TableU3(op.qs[1], <<2, 1, 1>>) >>
    [] op.gate = "Z" -> << TableU3(op.qs[1], <<0, 0, 2>>) >>
    [] op.gate = "RX" -> << TableU3(op.qs[1], <<op.params[1], -1, 1>>) >>
    [] op.gate = "RY" -> << TableU3(op.qs[1], <<op.params[1], 0, 0>>) >>
    [] op.gate = "RZ" -> << TableU3(op.qs[1], <<0, 0, op.params[1]>>) >>
    [] op.gate = "SWAP" -> << TableCnot(op.qs[1], op.qs[2]),
                              TableCnot(op.qs[2], op.qs[1]),
                              TableCnot(op.qs[1], op.qs[2]) >>
    [] op.gate = "CZ" -> << TableU3(op.qs[2], <<1, 0, 2>>),
                            TableCnot(op.qs[1], op.qs[2]),
                            TableU3(op.qs[2], <<1, 0, 2>>) >>
    [] OTHER -> << op >>

RECURSIVE TableConcat(_)
TableConcat(list) ==
  IF list = <<>> THEN <<>>
  ELSE TableExpansion(Head(list)) \o TableConcat(Tail(list))

C9_TranspileIsTheTable ==
  cfn = "transpile" => cout = TableConcat(cin)

\* A SWAP followed by an IF went through transpile: three CNOTs and the IF.
C9_Witness ==
  /\ cfn = "transpile" /\ Len(cin) = 2
  /\ cin[1].gate = "SWAP" /\ cin[2].gate = "IF"
  /\ Len(cout) = 4 /\ cout[4] = cin[2]

\* C8: the top level of compile(ir) holds no H, X, Y, Z, RX, RY, RZ, SWAP or
\* CZ instruction: only U3, CNOT and the pass-through instructions.
C8_CompiledIsNative ==
  cfn = "compile" => \A k \in DOMAIN cout : cout[k].gate \notin DecomposedGates

(***************************************************************************)
(* SWAP(a, b) against its decomposition, as index permutations: from every *)
(* basis index over SwapQubits qubits, the CNOTs of decompose(SWAP(a, b))  *)
(* are applied one by one with apply2QubitGate's CNOT permutation, and     *)
(* SWAP's permutation is applied to the same index.                        *)
(***************************************************************************)
SwapQubits == 3

SwapSim == NewSimulator([k \in 1..SwapQubits |-> k])

SwapInit == /\ widx \in AllIndices(SwapSim)
            /\ wab \in {p \in (1..SwapQubits) \X (1..SwapQubits) : p[1] # p[2]}
            /\ wcnot = widx /\ wk = 0 /\ wswap = Undefined
            /\ CIdle /\ SIdle /\ QIdle /\ XIdle

SwapCnots == decompose(G2("SWAP", wab[1], wab[2]))

ApplyNextCnot ==
  /\ wk < Len(SwapCnots)
  /\ LET op == SwapCnots[wk + 1]
     IN wcnot' = CnotIndex(wcnot, BitOf(SwapSim, op.qs[1]), BitOf(SwapSim, op.qs[2]))
  /\ wk' = wk + 1
  /\ UNCHANGED << widx, wab, wswap, cvars, svars, qvars, xvars >>

ApplySwap ==
  /\ wswap = Undefined
  /\ wswap' = SwapIndex(widx, BitOf(SwapSim, wab[1]), BitOf(SwapSim, wab[2]))
  /\ UNCHANGED << widx, wab, wcnot, wk, cvars, svars, qvars, xvars >>

SwapNext == ApplyNextCnot \/ ApplySwap

SpecSwap == SwapInit /\ [][SwapNext]_vars

SwapBothDone == wk = Len(SwapCnots) /\ wswap # Undefined

\* C10: on every basis index and for distinct qubits a, b, the three CNOTs
\* CNOT(a,b), CNOT(b,a), CNOT(a,b) lead to the index SWAP leads to: the values
\* of a and b exchanged and every other bit unchanged.
C10_SwapIsThreeCnots ==
  SwapBothDone =>
    /\ wcnot = wswap
    /\ BitIsSet(wswap, BitOf(SwapSim, wab[1])) = BitIsSet(widx, BitOf(SwapSim, wab[2]))
    /\ BitIsSet(wswap, BitOf(SwapSim, wab[2])) = BitIsSet(widx, BitOf(SwapSim, wab[1]))
    /\ \A q \in 1..SwapQubits :
         q \notin {wab[1], wab[2]} =>
           BitIsSet(wswap, BitOf(SwapSim, q)) = BitIsSet(widx, BitOf(SwapSim, q))

\* Both done on an index where a and b differ, so that the index moved.
C10_Witness == SwapBothDone /\ wswap # widx /\ wcnot = wswap

(***************************************************************************)
(* Optimizer soundness: every list of at most MaxSoundLen instructions of  *)
(* SoundPool is run on a fresh simulator, then prune of it is run on       *)
(* another fresh simulator.  The pool's instructions are deterministic on  *)
(* basis states.                                                           *)
(***************************************************************************)
MaxSoundLen == 4

SoundQubits == << 1, 2, 3 >>

SoundPool ==
  { G1("X", 1), G1("X", 2), G2("CNOT", 1, 2), G2("SWAP", 2, 3),
    G3("CCX", 1, 2, 3), G1("MEASURE", 1), G1("RESET", 2),
    Blk("IF", 1, 0, << G2("CNOT", 2, 1) >>),
    Blk("WHILE", 1, 0, << G1("X", 1), G1("MEASURE", 1) >>) }

SoundInit == /\ sir \in SeqsUpTo(SoundPool, MaxSoundLen)
             /\ sphase = "raw"
             /\ ssim = NewSimulator(SoundQubits)
             /\ sstack = << Frame(sir) >>
             /\ sraw = << >>
             /\ CIdle /\ WIdle /\ QIdle /\ XIdle

SoundStep ==
  /\ sphase \in {"raw", "pruned"}
  /\ sstack # <<>>
  /\ \E r \in RunStep(ssim, sstack) :
       /\ ~r.thrown
       /\ ssim' = r.sim
       /\ sstack' = r.stack
  /\ UNCHANGED << sir, sphase, sraw, cvars, wvars, qvars, xvars >>

SoundRunPruned ==
  /\ sphase = "raw"
  /\ sstack = <<>>
  /\ sraw' = ssim
  /\ ssim' = NewSimulator(SoundQubits)
  /\ sstack' = << Frame(prune(sir)) >>
  /\ sphase' = "pruned"
  /\ UNCHANGED << sir, cvars, wvars, qvars, xvars >>

SoundFinish ==
  /\ sphase = "pruned"
  /\ sstack = <<>>
  /\ sphase' = "done"
  /\ UNCHANGED << sir, ssim, sstack, sraw, cvars, wvars, qvars, xvars >>

SoundNext == SoundStep \/ SoundRunPruned \/ SoundFinish

SpecSound == SoundInit /\ [][SoundNext]_vars

\* C7: running prune(ir) from the all-zero state gives the measurement
\* results and the final basis state that running ir gives.
C7_PruneIsSound ==
  (sphase = "done" /\ sir # <<>>) =>
    /\ ssim.results = sraw.results
    /\ ssim.amps = sraw.amps

(***************************************************************************)
(* Q.use, the recorder and the qubit manager.                              *)
(*                                                                         *)
(* A running call of Q.use is a record                                     *)
(*   qubits    the handles it allocated, in order                          *)
(*   sim       its Simulator                                               *)
(*   ops       Circuit.#ops of its top-level circuit                       *)
(*   blocks    the if/while calls whose callback is running, the innermost *)
(*             last: [gate, cond, ops], ops being the subCircuit's #ops    *)
(*   pc        "callback": the callback is running                         *)
(*             "flush":    m called onFlush and Simulator.run is running   *)
(*             "cleanup":  the callback has returned or thrown             *)
(*             "final":    the flush of the finally block is running       *)
(*   mq        the qubit m passed to onFlush                               *)
(*   err       the error the callback ended with, or "none"                *)
(*   measured  <<q, r>> for the last MEASURE instruction the running flush *)
(*             has executed, <<>> if none yet                              *)
(* An error ends the callback that raised it: the model's callbacks do not *)
(* catch.  The caller of the outermost Q.use may call Q.use again after an *)
(* error.                                                                  *)
(***************************************************************************)
\* Symbol("foreign"): a symbol that no manager minted.
Foreign == Undefined - 1

UsageError == "Usage Error"
PhysicsError == "Quantum Physics Error"
FatalError == "Fatal Error"
TypeError == "TypeError"
CallbackError == "Callback Error"

\* QubitManager
isAllocated(reg, id) == id \in reg

\* A release that does not ask the simulator: what C1 must tell apart.
releaseUnchecked(reg, id, simulator) ==
  [threw |-> FALSE, registry |-> reg \ {id}]

release(reg, id, simulator) ==
  IF ~isZero(simulator, id)
  THEN [threw |-> TRUE, registry |-> reg]
  ELSE [threw |-> FALSE, registry |-> reg \ {id}]

\* qubits.forEach((q) => manager.release(q, sim)): the registry it leaves and
\* the qubit whose release threw, Null if none did.
RECURSIVE ReleaseEach(_, _, _, _)
ReleaseEach(reg, qubits, simulator, k) ==
  IF k > Len(qubits) THEN [registry |-> reg, culprit |-> Null]
  ELSE LET r == release(reg, qubits[k], simulator)
       IN IF r.threw THEN [registry |-> reg, culprit |-> qubits[k]]
          ELSE ReleaseEach(r.registry, qubits, simulator, k + 1)

\* The recorder's gate name for each operation.
GateOf(op) ==
  CASE op = "h" -> "H" [] op = "x" -> "X" [] op = "y" -> "Y" [] op = "z" -> "Z"
    [] op = "s" -> "S" [] op = "t" -> "T"
    [] op = "rx" -> "RX" [] op = "ry" -> "RY" [] op = "rz" -> "RZ"
    [] op = "u3" -> "U3" [] op = "cnot" -> "CNOT" [] op = "cz" -> "CZ"
    [] op = "rzz" -> "RZZ" [] op = "swap" -> "SWAP" [] op = "ccx" -> "CCX"
    [] op = "reset" -> "RESET" [] op = "m" -> "MEASURE"
    [] op = "if" -> "IF" [] op = "while" -> "WHILE"

\* A call of a recorder operation: its name, the handles and the numbers given.
Call(op, qs, params) == [op |-> op, qs |-> qs, params |-> params]

\* The checks without the structural ones: what C4 must tell apart.
CallErrorValidateOnly(reg, c) ==
  IF \E k \in DOMAIN c.qs : ~isAllocated(reg, c.qs[k]) THEN UsageError
  ELSE "none"

\* validate of each handle in turn, then the structural check: the error the
\* call throws, "none" if it goes on to addOp.
CallError(reg, c) ==
  IF \E k \in DOMAIN c.qs : ~isAllocated(reg, c.qs[k]) THEN UsageError
  ELSE IF c.op \in {"cnot", "cz"} /\ c.qs[1] = c.qs[2] THEN PhysicsError
  ELSE IF c.op = "swap" /\ c.qs[1] = c.qs[2] THEN UsageError
  ELSE "none"

\* The node the call hands to circuit.addOp.
RecordedNode(c) ==
  IF Len(c.qs) = 1
  THEN Node(GateOf(c.op), FALSE, c.qs, c.params, <<>>, <<>>)
  ELSE Node(GateOf(c.op), TRUE, c.qs, c.params, <<>>, <<>>)

(***************************************************************************)
(* What Compiler.compile leaves in the circuit's nodes.  getInstructions   *)
(* copies the array, not the nodes, and prune rewrites nodes in place: in  *)
(* the first sweep nodes of the circuit, in the second sweep the nodes     *)
(* transpile passed through, which are nodes of the circuit again.         *)
(***************************************************************************)
CircuitAfterCompile(ops) ==
  LET s1 == PruneSweep(ops)
      out1 == PruneOut(s1)
      org1 == PruneOutOrigin(s1)
      torg == TranspileOrigin(out1, 1)
      s2 == PruneSweep(transpile(out1))
      Through(k) == {j \in DOMAIN torg : torg[j] # 0 /\ org1[torg[j]] = k}
  IN [k \in DOMAIN ops |->
        IF Through(k) = {} THEN s1.input[k]
        ELSE s2.input[CHOOSE j \in Through(k) : TRUE]]

Cur == scopes[Len(scopes)]

SetCur(scope) == [scopes EXCEPT ![Len(scopes)] = scope]

NewScope(qubits) ==
  [qubits |-> qubits, sim |-> NewSimulator(qubits), ops |-> <<>>,
   blocks |-> <<>>, pc |-> "callback", mq |-> Null, err |-> "none",
   measured |-> <<>>]

\* circuit.addOp on the circuit of the recorder the callback holds: the
\* innermost subCircuit, or the top-level circuit.
addOp(scope, node) ==
  IF scope.blocks = <<>> THEN [scope EXCEPT !.ops = Append(@, node)]
  ELSE [scope EXCEPT !.blocks[Len(scope.blocks)].ops = Append(@, node)]

\* The circuit of the recorder the callback holds.
CurrentOps(scope) ==
  IF scope.blocks = <<>> THEN scope.ops
  ELSE scope.blocks[Len(scope.blocks)].ops

\* An error leaves the callback, through every if/while callback around it.
Thrown(scope, e) ==
  [scope EXCEPT !.pc = "cleanup", !.err = e, !.blocks = <<>>]

\* flush as far as sim.run: the compiled program, and the circuit's nodes as
\* compile leaves them.
BeginFlush(scope, pc, q) ==
  [scope EXCEPT !.pc = pc, !.mq = q, !.measured = <<>>,
                !.ops = CircuitAfterCompile(scope.ops)]

\* The caller sees Q.use return or throw: an error ends the enclosing callback.
Leave(error) ==
  IF Len(scopes) = 1 \/ error = "none" THEN Pop(scopes)
  ELSE [Pop(scopes) EXCEPT ![Len(scopes) - 1] = Thrown(@, error)]

MaxUses == 2
MaxQubits == 2
MaxCalls == 2

Handles == (1..minted) \cup {Foreign}

Gate1Menu == {"x", "h"}
Gate2Menu == {"cnot", "cz", "swap"}

InCallback == IF scopes = <<>> THEN FALSE ELSE Cur.pc = "callback"

\* Q.use(count, callback) up to the call of the callback.
Use(count) ==
  /\ nuses < MaxUses
  /\ IF scopes = <<>> THEN TRUE ELSE Cur.pc = "callback"
  /\ LET qubits == [k \in 1..count |-> minted + k]
     IN /\ minted' = minted + count
        /\ registry' = registry \cup {qubits[k] : k \in 1..count}
        /\ scopes' = Append(scopes, NewScope(qubits))
        /\ last' = [event |-> "use", qubits |-> qubits]
  /\ nuses' = nuses + 1
  /\ UNCHANGED << run, ncalls, cvars, wvars, svars, xvars >>

\* h, x, ..., cnot, cz, rzz, swap, ccx, reset: validate, check, addOp.
GateCall(c) ==
  /\ InCallback
  /\ ncalls < MaxCalls
  /\ LET e == CallError(registry, c)
     IN /\ scopes' = SetCur(IF e = "none" THEN addOp(Cur, RecordedNode(c))
                            ELSE Thrown(Cur, e))
        /\ last' = [event |-> "call", call |-> c, error |-> e]
  /\ ncalls' = ncalls + 1
  /\ UNCHANGED << registry, minted, run, nuses, cvars, wvars, svars, xvars >>

\* if / while up to the call of the callback: validate, new Circuit().
OpenBlock(c, value) ==
  /\ InCallback
  /\ ncalls < MaxCalls
  /\ LET e == CallError(registry, c)
     IN /\ scopes' = SetCur(
             IF e = "none"
             THEN [Cur EXCEPT !.blocks = Append(@,
                     [gate |-> GateOf(c.op), cond |-> <<c.qs[1], value>>,
                      ops |-> <<>>])]
             ELSE Thrown(Cur, e))
        /\ last' = [event |-> "call", call |-> c, error |-> e]
  /\ ncalls' = ncalls + 1
  /\ UNCHANGED << registry, minted, run, nuses, cvars, wvars, svars, xvars >>

\* if / while after the callback returned: addOp of the IF/WHILE node, its
\* body the subCircuit's instructions.
CloseBlock ==
  /\ InCallback
  /\ Cur.blocks # <<>>
  /\ LET b == Cur.blocks[Len(Cur.blocks)]
         outer == [Cur EXCEPT !.blocks = Pop(@)]
     IN scopes' = SetCur(addOp(outer, Blk(b.gate, b.cond[1], b.cond[2], b.ops)))
  /\ last' = [event |-> "block"]
  /\ UNCHANGED << registry, minted, run, ncalls, nuses, cvars, wvars, svars, xvars >>

\* m(q) up to sim.run: validate, addOp("MEASURE"), onFlush(q) compiles the
\* top-level circuit.
MCall(c) ==
  /\ InCallback
  /\ ncalls < MaxCalls
  /\ LET e == CallError(registry, c)
         recorded == addOp(Cur, RecordedNode(c))
     IN /\ scopes' = SetCur(IF e = "none" THEN BeginFlush(recorded, "flush", c.qs[1])
                            ELSE Thrown(Cur, e))
        /\ run' = IF e = "none" THEN << Frame(compile(recorded.ops)) >> ELSE <<>>
        /\ last' = [event |-> "call", call |-> c, error |-> e]
  /\ ncalls' = ncalls + 1
  /\ UNCHANGED << registry, minted, nuses, cvars, wvars, svars, xvars >>

Flushing ==
  IF scopes = <<>> THEN FALSE ELSE Cur.pc \in {"flush", "final"} /\ run # <<>>

\* The MEASURE the step executes, if it executes one.
MeasuredBy(stack, simAfter, before) ==
  LET top == Top(stack)
  IN IF top.i <= Len(top.code) /\ top.code[top.i].gate = "MEASURE"
     THEN << top.code[top.i].qs[1], simAfter.results[top.code[top.i].qs[1]] >>
     ELSE before

\* One step of sim.run inside flush.
FlushStep ==
  /\ Flushing
  /\ \E r \in RunStep(Cur.sim, run) :
       /\ ~r.thrown
       /\ run' = r.stack
       /\ scopes' = SetCur([Cur EXCEPT !.sim = r.sim,
                              !.measured = MeasuredBy(run, r.sim, @)])
  /\ UNCHANGED << registry, minted, last, ncalls, nuses, cvars, wvars, svars, xvars >>

\* sim.run throws inside the flush m called: the error leaves flush before
\* circuit.clear(), leaves m and leaves the callback.
FlushThrows ==
  /\ Flushing
  /\ Cur.pc = "flush"
  /\ \E r \in RunStep(Cur.sim, run) : r.thrown
  /\ run' = <<>>
  /\ scopes' = SetCur(Thrown(Cur, TypeError))
  /\ last' = [event |-> "flushThrew"]
  /\ UNCHANGED << registry, minted, ncalls, nuses, cvars, wvars, svars, xvars >>

\* flush after sim.run, and the return of m: circuit.clear(), return
\* sim.getResult(measureQubit).
MReturn ==
  /\ scopes # <<>>
  /\ Cur.pc = "flush"
  /\ run = <<>>
  /\ scopes' = SetCur([Cur EXCEPT !.ops = <<>>, !.pc = "callback"])
  /\ last' = [event |-> "m", qubit |-> Cur.mq,
              ret |-> getResult(Cur.sim, Cur.mq),
              measured |-> Cur.measured,
              inner |-> Cur.blocks # <<>>]
  /\ UNCHANGED << registry, minted, run, ncalls, nuses, cvars, wvars, svars, xvars >>

\* The callback returns.
Return ==
  /\ InCallback
  /\ Cur.blocks = <<>>
  /\ scopes' = SetCur([Cur EXCEPT !.pc = "cleanup"])
  /\ last' = [event |-> "return"]
  /\ UNCHANGED << registry, minted, run, ncalls, nuses, cvars, wvars, svars, xvars >>

\* The callback throws an error of its own.
Throw ==
  /\ InCallback
  /\ scopes' = SetCur(Thrown(Cur, CallbackError))
  /\ last' = [event |-> "throw"]
  /\ UNCHANGED << registry, minted, run, ncalls, nuses, cvars, wvars, svars, xvars >>

\* finally: flush() up to sim.run.
Finally ==
  /\ scopes # <<>>
  /\ Cur.pc = "cleanup"
  /\ scopes' = SetCur(BeginFlush(Cur, "final", Null))
  /\ run' = << Frame(compile(Cur.ops)) >>
  /\ UNCHANGED << registry, minted, last, ncalls, nuses, cvars, wvars, svars, xvars >>

\* sim.run throws inside the flush of the finally block: the error leaves
\* Q.use, before circuit.clear() and before any release.
FinalFlushThrows ==
  /\ Flushing
  /\ Cur.pc = "final"
  /\ \E r \in RunStep(Cur.sim, run) : r.thrown
  /\ run' = <<>>
  /\ scopes' = Leave(TypeError)
  /\ last' = [event |-> "exit", qubits |-> Cur.qubits, error |-> TypeError,
              culprit |-> Null, flushed |-> FALSE, sim |-> Cur.sim,
              ops |-> Cur.ops, callback |-> Cur.err]
  /\ UNCHANGED << registry, minted, ncalls, nuses, cvars, wvars, svars, xvars >>

\* The rest of finally: circuit.clear() ends the flush, then every qubit is
\* released in order; Q.use throws the release error, else the callback's
\* error, else returns.
Exit ==
  /\ scopes # <<>>
  /\ Cur.pc = "final"
  /\ run = <<>>
  /\ LET r == ReleaseEach(registry, Cur.qubits, Cur.sim, 1)
         error == IF r.culprit # Null THEN FatalError ELSE Cur.err
     IN /\ registry' = r.registry
        /\ scopes' = Leave(error)
        /\ last' = [event |-> "exit", qubits |-> Cur.qubits, error |-> error,
                    culprit |-> r.culprit, flushed |-> TRUE, sim |-> Cur.sim,
                    ops |-> <<>>, callback |-> Cur.err]
  /\ UNCHANGED << minted, run, ncalls, nuses, cvars, wvars, svars, xvars >>

ScopeInit == QIdle /\ XIdle /\ CIdle /\ WIdle /\ SIdle

ScopeNext ==
  \/ \E count \in 1..MaxQubits : Use(count)
  \/ \E op \in Gate1Menu \cup {"reset"}, q \in Handles : GateCall(Call(op, <<q>>, <<>>))
  \/ \E op \in Gate2Menu, a \in Handles, b \in Handles :
       GateCall(Call(op, <<a, b>>, <<>>))
  \/ \E op \in {"if", "while"}, q \in Handles, value \in {0, 1} :
       OpenBlock(Call(op, <<q>>, <<>>), value)
  \/ CloseBlock
  \/ \E q \in Handles : MCall(Call("m", <<q>>, <<>>))
  \/ FlushStep
  \/ FlushThrows
  \/ MReturn
  \/ Return
  \/ Throw
  \/ Finally
  \/ FinalFlushThrows
  \/ Exit

SpecScope == ScopeInit /\ [][ScopeNext]_vars

(***************************************************************************)
(* Claims about Q.use, the recorder and the manager.                       *)
(***************************************************************************)
Exited == last.event = "exit"

\* The places of the qubits of the scope that just exited whose probability
\* of 1 is not zero in its simulator.
NotReset == {k \in DOMAIN last.qubits : ~isZero(last.sim, last.qubits[k])}

First(S) == CHOOSE k \in S : \A j \in S : k <= j

\* C1: when Q.use ends, its final flush done, with some allocated qubit whose
\* probability of 1 is not zero, it throws the release error, raised for the
\* first such qubit in allocation order.
C1_ReleaseErrorNamesFirst ==
  (Exited /\ last.flushed /\ NotReset # {}) =>
    /\ last.error = FatalError
    /\ last.culprit = last.qubits[First(NotReset)]

\* One call, x on the second of two qubits, still pending when the callback
\* returns: the final flush runs it and the release of the second qubit throws.
C1_Witness ==
  /\ Exited /\ last.flushed /\ last.callback = "none"
  /\ nuses = 1 /\ ncalls = 1
  /\ Len(last.qubits) = 2 /\ NotReset = {2}
  /\ last.error = FatalError /\ last.culprit = last.qubits[2]

\* C2: after Q.use finishes, on any exit path, none of the handles it
\* allocated is allocated in the manager.
C2_NoHandleSurvives ==
  Exited => \A k \in DOMAIN last.qubits : ~isAllocated(registry, last.qubits[k])

Called == last.event = "call"

\* The handles of the last call that the scope it was made in did not allocate.
NotOwn == {k \in DOMAIN last.call.qs : ~InSeq(last.call.qs[k], Cur.qubits)}

\* C3: a recorder operation called with a handle the current scope did not
\* allocate throws a Usage Error.
C3_ForeignHandleRejected ==
  (Called /\ NotOwn # {}) => last.error = UsageError

\* C4: cnot and cz with control = target throw a Quantum Physics Error, swap
\* of a qubit with itself a Usage Error; a rejected call, a failed validation
\* included, leaves the IR as it was and starts no flush.
C4_RejectedCallChangesNothing ==
  [][ncalls' # ncalls =>
       LET c == last'.call
           valid == \A k \in DOMAIN c.qs : isAllocated(registry, c.qs[k])
       IN /\ (valid /\ c.op \in {"cnot", "cz"} /\ c.qs[1] = c.qs[2])
               => last'.error = PhysicsError
          /\ (valid /\ c.op = "swap" /\ c.qs[1] = c.qs[2])
               => last'.error = UsageError
          /\ ~valid => last'.error = UsageError
          /\ last'.error # "none" =>
               /\ Cur'.ops = Cur.ops
               /\ Cur'.sim = Cur.sim
               /\ run' = <<>>]_vars

\* cnot(q, q) on an allocated q, after an instruction was recorded.
C4_Witness ==
  /\ Called /\ last.call.op = "cnot" /\ last.call.qs[1] = last.call.qs[2]
  /\ isAllocated(registry, last.call.qs[1])
  /\ last.error = PhysicsError
  /\ Cur.ops # <<>>

\* C5: m(q), on the top-level recorder or on an inner one, returns 0 or 1,
\* the outcome of the MEASURE instruction the call appended.
C5_MReturnsItsOutcome ==
  last.event = "m" =>
    /\ last.ret \in {0, 1}
    /\ last.measured = << last.qubit, last.ret >>

\* C6: after every flush, one that ended with an error of the simulator
\* included, the top-level IR is empty.
C6_FlushEmptiesIR ==
  /\ last.event \in {"m", "flushThrew"} => Cur.ops = <<>>
  /\ Exited => last.ops = <<>>

(***************************************************************************)
(* Optimizer.prune on every list of at most MaxPruneLen instructions of    *)
(* PrunePool: the single-qubit gates on qubit 1 (rotations with angles     *)
(* pi/2, 3pi/2, -pi/2 and 2pi), the multi-qubit gates with qubit 1 in      *)
(* either place, and one gate on another wire.                             *)
(***************************************************************************)
MaxPruneLen == 3

PrunePool ==
  { G1("H", 1), G1("X", 1), G1("Y", 1), G1("Z", 1), G1("S", 1), G1("T", 1),
    G1p("RX", 1, <<1>>), G1p("RX", 1, <<3>>), G1p("RY", 1, <<1>>),
    G1p("RZ", 1, <<1>>), G1p("RZ", 1, <<-1>>), G1p("RZ", 1, <<TwoPi>>),
    G1p("U3", 1, <<0, TwoPi, 0>>), G1p("U3", 1, <<1, 0, 0>>),
    G1("MEASURE", 1), G1("RESET", 1),
    G2("CNOT", 1, 2), G2("CNOT", 2, 1), G2("CZ", 1, 2), G2("CZ", 2, 1),
    G2("SWAP", 1, 2), G3("CCX", 1, 2, 3), G1("X", 2),
    G2p("RZZ", 1, 2, << TwoPi >>) }

PruneListInit == /\ cin \in SeqsUpTo(PrunePool, MaxPruneLen)
                 /\ cfn = "none" /\ cout = <<>>
                 /\ WIdle /\ SIdle /\ QIdle /\ XIdle

PruneListNext == DoPrune

SpecPrune == PruneListInit /\ [][PruneListNext]_vars

Pruned2 == cfn = "prune" /\ Len(cin) = 2

\* C11 as claimed: prune of two identical instructions of a self-inverse gate
\* G in {H, X, Y, Z, CNOT, CZ, SWAP} is the empty list.
C11_SelfInversePairVanishes ==
  (Pruned2 /\ cin[1] = cin[2]
     /\ cin[1].gate \in {"H", "X", "Y", "Z", "CNOT", "CZ", "SWAP"})
    => cout = <<>>

\* C11 amended: prune of two identical instructions of H, X, Y or Z on one
\* qubit is the empty list; two identical CNOT, CZ or SWAP instructions both
\* stay.
C11_SingleQubitPairVanishes ==
  (Pruned2 /\ cin[1] = cin[2]) =>
    /\ cin[1].gate \in {"H", "X", "Y", "Z"} => cout = <<>>
    /\ cin[1].gate \in {"CNOT", "CZ", "SWAP"} => cout = cin

C11_Witness ==
  Pruned2 /\ cin[1] = cin[2] /\ cin[1].gate = "Y" /\ cout = <<>>

\* The instructions of a list that act on qubit q, in order.
OnQubit(list, q) == SelectSeq(list, LAMBDA o : InSeq(q, o.qs))

\* The commutation table read for a phase gate (S or T) on q: an instruction
\* that does not act on q, a CNOT or CZ with q as its control, or one of the
\* other gates among S, T, RZ on q.
CommutesWithPhase(o, gate, q) ==
  \/ ~InSeq(q, o.qs)
  \/ o.gate \in {"CNOT", "CZ"} /\ o.qs[1] = q
  \/ ~o.arr /\ o.qs = <<q>> /\ o.gate \in ({"S", "T", "RZ"} \ {gate})

\* A pruned list whose first and last instructions are the same phase gate
\* on one qubit, with nothing but commuting instructions between them.
PhasePair ==
  /\ cfn = "prune" /\ Len(cin) >= 2
  /\ cin[1].gate \in {"S", "T"} /\ cin[Len(cin)] = cin[1]
  /\ \A k \in 2..(Len(cin) - 1) :
       CommutesWithPhase(cin[k], cin[1].gate, cin[1].qs[1])

\* C12: two S (two T) instructions on one qubit with nothing but commuting
\* instructions between them become a single Z (a single S) at the position
\* of the first, and neither of the two stays.
C12_PhasePairMerges ==
  PhasePair =>
    /\ cout # <<>>
    /\ cout[1] = [cin[1] EXCEPT !.gate = IF cin[1].gate = "S" THEN "Z" ELSE "S"]
    /\ \A k \in DOMAIN cout : k > 1 => cout[k] # cin[1]

\* x modulo 2 pi, in 0 .. 2 pi - 1 whatever the sign of x.
ModTwoPi(x) == ((x % TwoPi) + TwoPi) % TwoPi

\* An instruction that the identity test is about: a rotation by a multiple
\* of 2 pi, a U3 whose three parameters are multiples of 2 pi.
IdentityAngle(o) ==
  \/ o.gate \in {"RX", "RY", "RZ"} /\ Len(o.params) > 0 /\ ModTwoPi(o.params[1]) = 0
  \/ o.gate = "U3" /\ Len(o.params) > 0
       /\ \A i \in DOMAIN o.params : ModTwoPi(o.params[i]) = 0

\* A pruned list whose first and last instructions are rotations about the
\* same axis on one qubit q, neither an identity, with nothing on q's wire
\* between them.
RotationPair ==
  /\ cfn = "prune" /\ Len(cin) >= 2
  /\ cin[1].gate \in {"RX", "RY", "RZ"}
  /\ cin[Len(cin)].gate = cin[1].gate /\ cin[Len(cin)].qs = cin[1].qs
  /\ ~IdentityAngle(cin[1]) /\ ~IdentityAngle(cin[Len(cin)])
  /\ \A k \in 2..(Len(cin) - 1) : ~InSeq(cin[1].qs[1], cin[k].qs)

\* C13: two rotations about one axis on one qubit that lookback pairs become
\* one rotation, at the first one's position, by the sum of the two angles
\* modulo 2 pi; both disappear when the sum is a multiple of 2 pi; the
\* output of prune holds no rotation by a multiple of 2 pi and no U3 whose
\* three parameters are multiples of 2 pi.
C13_RotationsMerge ==
  /\ cfn = "prune" => \A k \in DOMAIN cout : ~IdentityAngle(cout[k])
  /\ RotationPair =>
       LET q == cin[1].qs[1]
           sum == cin[1].params[1] + cin[Len(cin)].params[1]
       IN IF ModTwoPi(sum) = 0 THEN OnQubit(cout, q) = <<>>
          ELSE /\ Len(OnQubit(cout, q)) = 1
               /\ cout[1].gate = cin[1].gate /\ cout[1].qs = cin[1].qs
               /\ Len(cout[1].params) = 1
               /\ ModTwoPi(cout[1].params[1]) = ModTwoPi(sum)
               /\ cout[1].params[1] < TwoPi /\ cout[1].params[1] > -TwoPi

\* RX(3 pi/2), an instruction on another wire, RX(3 pi/2): one RX(pi) first.
C13_Witness ==
  /\ RotationPair /\ Len(cin) = 3
  /\ cin[1] = G1p("RX", 1, <<3>>) /\ cin[3] = cin[1]
  /\ cout = << G1p("RX", 1, <<2>>), cin[2] >>

\* The single-qubit gates that pair with an earlier instruction of the same
\* gate.
Pairing == {"H", "X", "Y", "Z", "S", "T", "RX", "RY", "RZ"}

\* A pruned list A, M, B: A and B instructions of the same pairing gate on one
\* qubit q, neither an identity, and M another instruction on q's wire.
Sandwich ==
  /\ cfn = "prune" /\ Len(cin) = 3
  /\ cin[1].gate \in Pairing /\ ~cin[1].arr
  /\ cin[3].gate = cin[1].gate /\ cin[3].qs = cin[1].qs /\ ~cin[3].arr
  /\ ~IdentityAngle(cin[1]) /\ ~IdentityAngle(cin[3])
  /\ InSeq(cin[1].qs[1], cin[2].qs)
  /\ ~IdentityAngle(cin[2])
  /\ ~(cin[2].gate = cin[1].gate /\ cin[2].qs = cin[1].qs)

\* The table: Z, S, T, RZ across a CNOT or CZ whose control is q; X, RX across
\* a CNOT whose target is q.
TableAllows(a, m) ==
  LET q == a.qs[1]
  IN \/ a.gate \in {"Z", "S", "T", "RZ"} /\ m.gate \in {"CNOT", "CZ"}
          /\ Len(m.qs) = 2 /\ m.qs[1] = q
     \/ a.gate \in {"X", "RX"} /\ m.gate = "CNOT"
          /\ Len(m.qs) = 2 /\ m.qs[2] = q /\ m.qs[1] # q

NewCircuit == [arrays |-> << [items |-> <<>>, frozen |-> FALSE] >>, ops |-> 1]

\* array.push(node): a TypeError on a frozen array, which is left as it was.
ArrayPush(c, ref, node) ==
  IF c.arrays[ref].frozen THEN c
  ELSE [c EXCEPT !.arrays[ref].items = Append(@, node)]

\* this.#ops.push({...})
CircuitAddOp(c, node) == ArrayPush(c, c.ops, node)

\* this.#ops = []
CircuitClear(c) ==
  [arrays |-> Append(c.arrays, [items |-> <<>>, frozen |-> FALSE]),
   ops |-> Len(c.arrays) + 1]

\* A getInstructions that hands out #ops itself: what C15 must tell apart.
CircuitGetInstructionsNoCopy(c) == [circuit |-> c, ref |-> c.ops]

\* Object.freeze([...this.#ops]): the circuit with the new array on its heap,
\* and the place of that array.
CircuitGetInstructions(c) ==
  [circuit |-> [c EXCEPT !.arrays =
                  Append(@, [items |-> c.arrays[c.ops].items, frozen |-> TRUE])],
   ref |-> Len(c.arrays) + 1]

MaxCircuitSteps == 5
MaxSnapshots == 2

CircuitPool == { G1("H", 1), G1("X", 2) }

CircuitInit == /\ circ = NewCircuit /\ snaps = <<>> /\ kappended = <<>>
               /\ ksteps = 0
               /\ BIdle /\ CIdle /\ WIdle /\ SIdle /\ QIdle /\ MIdle /\ RIdle

\* c.addOp(gate, qubit)
AddOpCall(node) ==
  /\ ksteps < MaxCircuitSteps
  /\ circ' = CircuitAddOp(circ, node)
  /\ kappended' = Append(kappended, node)
  /\ ksteps' = ksteps + 1
  /\ UNCHANGED << snaps, bvars, cvars, wvars, svars, qvars, mvars, rvars >>

\* c.clear()
ClearCall ==
  /\ ksteps < MaxCircuitSteps
  /\ circ' = CircuitClear(circ)
  /\ kappended' = <<>>
  /\ ksteps' = ksteps + 1
  /\ UNCHANGED << snaps, bvars, cvars, wvars, svars, qvars, mvars, rvars >>

\* c.getInstructions()
GetInstructionsCall ==
  /\ Len(snaps) < MaxSnapshots
  /\ LET r == CircuitGetInstructions(circ)
     IN /\ circ' = r.circuit
        /\ snaps' = Append(snaps, [ref |-> r.ref, appended |-> kappended])
  /\ UNCHANGED << kappended, ksteps, bvars, cvars, wvars, svars, qvars, mvars, rvars >>

\* The holder of a snapshot tries snapshot.push(node).
PushOnSnapshot(i, node) ==
  /\ ksteps < MaxCircuitSteps
  /\ i \in DOMAIN snaps
  /\ circ' = ArrayPush(circ, snaps[i].ref, node)
  /\ ksteps' = ksteps + 1
  /\ UNCHANGED << snaps, kappended, bvars, cvars, wvars, svars, qvars, mvars, rvars >>

CircuitNext ==
  \/ \E node \in CircuitPool : AddOpCall(node)
  \/ ClearCall
  \/ GetInstructionsCall
  \/ \E i \in 1..MaxSnapshots, node \in CircuitPool : PushOnSnapshot(i, node)

SpecCircuit == CircuitInit /\ [][CircuitNext]_vars

\* C15: a snapshot is a frozen copy: at any later time it holds what had been
\* appended, in order, when it was taken, whatever was appended or cleared
\* since; a snapshot taken after clear() with nothing appended since is empty.
C15_SnapshotIsFrozenCopy ==
  \A i \in DOMAIN snaps :
    /\ circ.arrays[snaps[i].ref].items = snaps[i].appended
    /\ circ.arrays[snaps[i].ref].frozen

\* A snapshot of two instructions, the circuit cleared and appended to since,
\* and a second snapshot taken after a clear that is empty.
C15_Witness ==
  /\ Len(snaps) = 2
  /\ Len(snaps[1].appended) = 2 /\ snaps[2].appended = <<>>
  /\ circ.arrays[circ.ops].items # <<>>
  /\ circ.arrays[circ.ops].items # snaps[1].appended

(***************************************************************************)
(* A QubitManager called directly, as the test suite does: allocate, and   *)
(* release with a simulator that answers isZero either way.  The simulator *)
(* handed to release holds every handle minted so far, in one basis state. *)
(***************************************************************************)
\* An allocate that hands out a registered symbol again (Symbol.for): what
\* C16 must tell apart.
allocateShared(reg, n) == [registry |-> reg \cup {1}, id |-> 1, minted |-> n]

\* allocate(): Symbol("qubit") is a symbol that did not exist before.
allocate(reg, n) == [registry |-> reg \cup {n + 1}, id |-> n + 1, minted |-> n + 1]

MaxHandles == 3
MaxManagerCalls == 6

\* A simulator of the handles 1..n in the basis state idx.
BasisSimulator(n, idx) ==
  [qubitMap |-> [k \in 1..n |-> k], amps |-> [i \in {idx} |-> <<1, 0>>],
   results |-> << >>]

ManagerInit == QIdle /\ MIdle /\ KIdle /\ RIdle /\ BIdle /\ CIdle /\ WIdle /\ SIdle

\* manager.allocate()
AllocateCall ==
  /\ ncalls < MaxManagerCalls
  /\ minted < MaxHandles
  /\ LET r == allocate(registry, minted)
     IN /\ registry' = r.registry
        /\ minted' = r.minted
        /\ mreturned' = mreturned \cup {r.id}
        /\ last' = [event |-> "allocate", id |-> r.id,
                    fresh |-> r.id \notin mreturned]
  /\ ncalls' = ncalls + 1
  /\ UNCHANGED << mreleased, scopes, run, nuses, bvars, cvars, wvars, svars, kvars, rvars >>

\* manager.release(h, sim), h a handle allocate returned (released or not).
ReleaseCall(h, idx) ==
  /\ ncalls < MaxManagerCalls
  /\ LET r == release(registry, h, BasisSimulator(minted, idx))
     IN /\ registry' = r.registry
        /\ mreleased' = IF r.threw THEN mreleased ELSE mreleased \cup {h}
        /\ last' = [event |-> "release", id |-> h, threw |-> r.threw,
                    one |-> (idx \div Pow2(h - 1)) % 2 = 1,
                    before |-> registry]
  /\ ncalls' = ncalls + 1
  /\ UNCHANGED << minted, mreturned, scopes, run, nuses, bvars, cvars, wvars, svars, kvars, rvars >>

ManagerNext ==
  \/ AllocateCall
  \/ \E h \in 1..minted, idx \in 0..(Pow2(minted) - 1) : ReleaseCall(h, idx)

SpecManager == ManagerInit /\ [][ManagerNext]_vars

\* C16: after any sequence of allocate and release calls the live set is the
\* handles returned by allocate minus those whose release succeeded; allocate
\* never returns a handle it returned before; release removes the handle when
\* the simulator says it is zero and otherwise throws and leaves the live set
\* as it was; isAllocated is false for anything allocate did not mint.
C16_LiveSetIsAllocatedMinusReleased ==
  /\ {h \in (1..MaxHandles + 1) \cup {Foreign} : isAllocated(registry, h)}
       = mreturned \ mreleased
  /\ last.event = "allocate" => last.fresh /\ isAllocated(registry, last.id)
  /\ last.event = "release" =>
       IF last.one THEN last.threw /\ registry = last.before
       ELSE ~last.threw /\ registry = last.before \ {last.id}

\* A release that threw on a qubit in 1 after an earlier release succeeded.
C16_Witness ==
  /\ last.event = "release" /\ last.threw
  /\ mreleased # {} /\ Cardinality(registry) = 2

(***************************************************************************)
(* Simulator.run on one instruction list of classical control flow, with   *)
(* the log of the non-control instructions it executed.  The lists are     *)
(* built of X, MEASURE, RESET, IF and WHILE on three qubits that start in  *)
(* |000>, so every measurement has one outcome.  A WHILE whose condition   *)
(* never changes runs for ever: the log is cut at MaxLog entries.          *)
(***************************************************************************)
MaxRunLen == 3

MaxLog == 8

RunQubits == << 1, 2, 3 >>

RunPool ==
  { G1("X", 1), G1("X", 2), G1("MEASURE", 1), G1("MEASURE", 2), G1("RESET", 1),
    Blk("IF", 1, 1, << G1("X", 3) >>),
    Blk("IF", 1, 0, << G1("X", 3) >>),
    Blk("IF", 1, 0, << Blk("IF", 2, 0, << G1("X", 3) >>) >>),
    Blk("IF", 1, 1, << G1("X", 2), G1("MEASURE", 2),
                       Blk("IF", 2, 1, << G1("X", 3) >>) >>),
    Blk("WHILE", 1, 1, << G1("X", 1), G1("MEASURE", 1), G1("X", 3) >>),
    Blk("WHILE", 1, 1, << G1("X", 3) >>),
    Blk("WHILE", 1, 0, << G1("X", 2), G1("MEASURE", 2),
                          Blk("IF", 2, 0, << G1("X", 1), G1("MEASURE", 1) >>) >>),
    Blk("WHILE", 2, 0, << G1("X", 3), G1("MEASURE", 1) >>) }

RunInit == /\ sir \in SeqsUpTo(RunPool, MaxRunLen)
           /\ sphase = "raw"
           /\ ssim = NewSimulator(RunQubits)
           /\ sstack = << Frame(sir) >>
           /\ sraw = << >>
           /\ rlog = <<>> /\ rdoomed = FALSE /\ rnoisy = FALSE /\ rprofile = Null
           /\ BIdle /\ CIdle /\ WIdle /\ QIdle /\ KIdle /\ MIdle

\* The instruction run is about to execute, if it is not at the end of a list.
AtInstruction == sstack # <<>> /\ Top(sstack).i <= Len(Top(sstack).code)

RunOp == Top(sstack).code[Top(sstack).i]

\* The list holds a MEASURE of q, at any depth.
RECURSIVE Measures(_, _)
Measures(code, q) ==
  \E k \in 1..Len(code) :
    \/ code[k].gate = "MEASURE" /\ code[k].qs = << q >>
    \/ code[k].gate \in {"IF", "WHILE"} /\ Measures(code[k].body, q)

\* The cached result of the block's qubit is the block's value.
Matches(results, op) ==
  op.cond[1] \in DOMAIN results /\ results[op.cond[1]] = op.cond[2]

\* One step of run: the next instruction of the innermost list, or the return
\* from a list that is finished.
RunInstr ==
  /\ sphase = "raw"
  /\ sstack # <<>>
  /\ Len(rlog) < MaxLog
  /\ \E r \in RunStep(ssim, sstack) :
       /\ ~r.thrown
       /\ ssim' = r.sim
       /\ sstack' = r.stack
  /\ rlog' = IF AtInstruction /\ RunOp.gate \notin {"IF", "WHILE"}
             THEN Append(rlog, RunOp) ELSE rlog
  /\ rdoomed' = (\/ rdoomed
                 \/ /\ AtInstruction /\ RunOp.gate = "WHILE"
                    /\ Matches(ssim.results, RunOp)
                    /\ ~Measures(RunOp.body, RunOp.cond[1]))
  /\ UNCHANGED << sir, sphase, sraw, rnoisy, rprofile, bvars, cvars, wvars, qvars, kvars, mvars >>

\* The outermost call of run returns.
RunReturn ==
  /\ sphase = "raw"
  /\ sstack = <<>>
  /\ sphase' = "done"
  /\ UNCHANGED << sir, ssim, sstack, sraw, rvars, bvars, cvars, wvars, qvars, kvars, mvars >>

RunNext == RunInstr \/ RunReturn

SpecRun == RunInit /\ [][RunNext]_vars

(***************************************************************************)
(* What the control flow is claimed to execute, on classical bits: `bits`  *)
(* the value of each qubit, `cache` the measurement results, `log` the     *)
(* instructions executed.  An IF executes its body once when the cached    *)
(* result of its qubit is its value and skips it otherwise; a WHILE checks *)
(* the same before every iteration.  `cut` is set when a WHILE is still    *)
(* going after `fuel` iterations.                                          *)
(***************************************************************************)
RECURSIVE Walk(_, _, _, _)
Walk(code, k, st, fuel) ==
  IF k > Len(code) \/ st.cut THEN st
  ELSE LET op == code[k]
           q == op.qs[1]
       IN IF op.gate = "IF"
          THEN IF Matches(st.cache, op)
               THEN Walk(code, k + 1, Walk(op.body, 1, st, fuel), fuel)
               ELSE Walk(code, k + 1, st, fuel)
          ELSE IF op.gate = "WHILE"
          THEN IF ~Matches(st.cache, op) THEN Walk(code, k + 1, st, fuel)
               ELSE IF fuel = 0 THEN [st EXCEPT !.cut = TRUE]
               ELSE Walk(code, k, Walk(op.body, 1, st, fuel - 1), fuel - 1)
          ELSE IF op.gate = "X"
          THEN Walk(code, k + 1,
                    [st EXCEPT !.bits[q] = 1 - @, !.log = Append(@, op)], fuel)
          ELSE IF op.gate = "MEASURE"
          THEN Walk(code, k + 1,
                    [st EXCEPT !.cache = [x \in DOMAIN @ \cup {q} |->
                                            IF x = q THEN st.bits[q] ELSE @[x]],
                               !.log = Append(@, op)], fuel)
          ELSE Walk(code, k + 1, [st EXCEPT !.log = Append(@, op)], fuel)

Walked(code) ==
  Walk(code, 1, [bits |-> [q \in 1..Len(RunQubits) |-> 0], cache |-> << >>,
                 log |-> <<>>, cut |-> FALSE], MaxLog)

RECURSIVE HasGate(_, _)
HasGate(code, gate) ==
  \E k \in 1..Len(code) :
    \/ code[k].gate = gate
    \/ code[k].gate \in {"IF", "WHILE"} /\ HasGate(code[k].body, gate)

\* The list is one the claims on IF and WHILE speak of: its qubits are
\* measured, never reset.
Classical(code) == ~HasGate(code, "RESET")

\* C17: when run reaches an IF(q, v, body) it executes the body exactly once
\* if the cached result of q is v at that moment and not at all otherwise, a
\* qubit never measured included, and the same holds of the IFs inside a
\* body: a list of X, MEASURE and nested IF has executed, when run returns,
\* exactly the instructions that this rule selects, in their order, and has
\* cached exactly the results they give.
C17_IfRunsBodyOnceWhenCachedMatches ==
  (sphase = "done" /\ rlog # <<>> /\ Classical(sir) /\ ~HasGate(sir, "WHILE"))
    => /\ ~Walked(sir).cut
       /\ rlog = Walked(sir).log
       /\ ssim.results = Walked(sir).cache

\* A nested IF ran its inner body: both conditions matched.
C17_Witness ==
  /\ sphase = "done" /\ Len(sir) = 3 /\ ~HasGate(sir, "WHILE")
  /\ sir[3] = Blk("IF", 1, 1, << G1("X", 2), G1("MEASURE", 2),
                                 Blk("IF", 2, 1, << G1("X", 3) >>) >>)
  /\ rlog = << G1("X", 1), G1("MEASURE", 1), G1("X", 2), G1("MEASURE", 2),
               G1("X", 3) >>

\* C18: when run reaches a WHILE(q, v, body) it checks the cached result of q
\* against v before every iteration.  The body runs zero times if q was never
\* measured or its cached result is not v, the loop is left at the first check
\* after a MEASURE of q in the body cached another value, and run never
\* returns once it entered a WHILE whose condition matches and whose body
\* holds no MEASURE of q: a list with a WHILE has executed, when run returns,
\* exactly the instructions that this rule selects and no loop was cut short.
C18_WhileChecksBeforeEveryIteration ==
  /\ (sphase = "done" /\ Classical(sir) /\ HasGate(sir, "WHILE"))
       => /\ ~Walked(sir).cut
          /\ rlog = Walked(sir).log
          /\ ssim.results = Walked(sir).cache
  /\ rdoomed => sphase # "done"

\* A WHILE ran its body twice and was left when the second iteration measured
\* its qubit as 1.
C18_Witness ==
  /\ sphase = "done" /\ ~rdoomed /\ Len(sir) = 2
  /\ sir[1] = G1("MEASURE", 1)
  /\ sir[2].gate = "WHILE" /\ sir[2].cond = << 1, 0 >>
  /\ rlog = << G1("MEASURE", 1), G1("X", 2), G1("MEASURE", 2),
               G1("X", 2), G1("MEASURE", 2), G1("X", 1), G1("MEASURE", 1) >>
  /\ getResult(ssim, 1) = 1

\* C20: executing RESET(q) updates the cached result of q as MEASURE does:
\* when the last instruction executed is a RESET of a qubit that was measured
\* before, the cached result of that qubit is the 0 the RESET leaves, not the
\* result of the earlier MEASURE.
C20_ResetUpdatesCache ==
  (/\ rlog # <<>>
   /\ rlog[Len(rlog)].gate = "RESET"
   /\ rlog[Len(rlog)].qs[1] \in DOMAIN ssim.results)
    => getResult(ssim, rlog[Len(rlog)].qs[1]) = 0

(***************************************************************************)
(* RESET from any state.  The simulator holds three qubits in any state    *)
(* whose entries have the amplitude 1 (the state is kept up to a common    *)
(* factor, and measure, #collapse and X do not add amplitudes), with or    *)
(* without a noise model.  With a readout error measure replaces prob1 by  *)
(* 1 - prob1 before it samples, so both results can come out whatever the  *)
(* state is, and #collapse then keeps the entries of a result the state    *)
(* may not hold: the state can be left with no entry at all.  The list run *)
(* is made of RESETs; when run returns, the scope releases every qubit.    *)
(***************************************************************************)
MaxResetLen == 3

ResetQubits == << 1, 2, 3 >>

ResetPool == { G1("RESET", ResetQubits[k]) : k \in 1..Len(ResetQubits) }

ResetStates(noisy) ==
  { [i \in D |-> << 1, 0 >>] :
      D \in {S \in SUBSET (0..(Pow2(Len(ResetQubits)) - 1)) : noisy \/ S # {}} }

\* The results measure can return.
MeasureResults(sim, qubitId, noisy) ==
  IF noisy THEN {0, 1} ELSE MeasureOutcomes(sim, qubitId)

\* A RESET that collapses and does not flip: what C19 must tell apart.
RunResetNoFlip(sim, qubitId, noisy) ==
  { collapse(sim, qubitId, r) : r \in MeasureResults(sim, qubitId, noisy) }

\* The RESET branch of run: measure, X if the result is 1.
RunReset(sim, qubitId, noisy) ==
  { IF r = 1 THEN applyGate(collapse(sim, qubitId, r), "X", qubitId, <<>>)
             ELSE collapse(sim, qubitId, r) :
    r \in MeasureResults(sim, qubitId, noisy) }

ResetInit ==
  /\ rnoisy \in BOOLEAN
  /\ sir \in SeqsUpTo(ResetPool, MaxResetLen) \ {<<>>}
  /\ \E amps \in ResetStates(rnoisy) :
       ssim = [NewSimulator(ResetQubits) EXCEPT !.amps = amps]
  /\ sphase = "raw"
  /\ sstack = << Frame(sir) >>
  /\ sraw = << >>
  /\ rlog = <<>> /\ rdoomed = FALSE /\ rprofile = Null
  /\ registry = {ResetQubits[k] : k \in 1..Len(ResetQubits)}
  /\ minted = Len(ResetQubits)
  /\ scopes = <<>> /\ run = <<>> /\ last = [event |-> "none"]
  /\ ncalls = 0 /\ nuses = 0
  /\ BIdle /\ CIdle /\ WIdle /\ KIdle /\ MIdle

\* run executes the next RESET of the list; sraw keeps the state before it.
ResetInstr ==
  /\ sphase = "raw"
  /\ AtInstruction
  /\ ssim' \in RunReset(ssim, RunOp.qs[1], rnoisy)
  /\ sraw' = ssim
  /\ sstack' = Advance(sstack)
  /\ rlog' = Append(rlog, RunOp)
  /\ UNCHANGED << sir, sphase, rdoomed, rnoisy, rprofile, qvars, bvars, cvars, wvars, kvars,
                  mvars >>

\* run returns and Q.use releases the qubits in their order.
ResetRelease ==
  /\ sphase = "raw"
  /\ ~AtInstruction
  /\ sphase' = "done"
  /\ LET r == ReleaseEach(registry, ResetQubits, ssim, 1)
     IN /\ registry' = r.registry
        /\ last' = [event |-> "exit", culprit |-> r.culprit]
  /\ UNCHANGED << sir, ssim, sstack, sraw, rvars, minted, scopes, run, ncalls,
                  nuses, bvars, cvars, wvars, kvars, mvars >>

ResetNext == ResetInstr \/ ResetRelease

SpecReset == ResetInit /\ [][ResetNext]_vars

\* The qubit of the last RESET executed.
LastReset == rlog[Len(rlog)].qs[1]

\* The list resets every qubit of the scope.
ResetsAll(code) ==
  \A k \in 1..Len(ResetQubits) : \E j \in 1..Len(code) : code[j].qs = << ResetQubits[k] >>

\* C19: after a RESET(q) has executed, from any state and with or without a
\* noise model, isZero(q) holds, every remaining entry has the bit of q clear
\* and the other bits of an entry the state held before the RESET, and when
\* the list has reset every qubit the scope releases all of them without
\* error.
C19_ResetLeavesZero ==
  /\ (sphase = "raw" /\ rlog # <<>>)
       => /\ isZero(ssim, LastReset)
          /\ \A i \in DOMAIN ssim.amps :
               /\ ~BitIsSet(i, BitOf(ssim, LastReset))
               /\ \E j \in DOMAIN sraw.amps :
                    ClearBit(j, BitOf(ssim, LastReset)) = i
  /\ (sphase = "done" /\ ResetsAll(sir))
       => last.culprit = Null /\ registry = {}

\* With a readout error, a RESET of a qubit that was 1 in part of the state
\* flipped it, and the scope released every qubit.
C19_Witness ==
  /\ sphase = "done" /\ rnoisy /\ ResetsAll(sir)
  /\ last.culprit = Null /\ registry = {}
  /\ ssim.amps # << >>
  /\ \E i \in DOMAIN sraw.amps : i # 0

(***************************************************************************)
(* The noise model.  A probability of the NoiseModel is "never" (0),       *)
(* "always" (1) or "maybe" (strictly in between): Math.random() < p is     *)
(* false for 0, true for 1 and either otherwise.  t1 is "never" or         *)
(* "always": the damping by sqrt(1 - t1) of a t1 in between is not a       *)
(* Gaussian integer.  The lists run under a noise model are built of H, X, *)
(* Z, CNOT, MEASURE, RESET, IF and WHILE, on which every prob1 is 0, 1/2   *)
(* or 1 and a state that still has an entry keeps the norm 1.              *)
(***************************************************************************)
Happens(p) ==
  IF p = "never" THEN {FALSE} ELSE IF p = "always" THEN {TRUE} ELSE BOOLEAN

\* indices[i] ^= bit for every entry.
FlipBit(sim, qubitId) ==
  LET bit == BitOf(sim, qubitId)
  IN [sim EXCEPT !.amps = [i \in {XorBit(j, bit) : j \in DOMAIN sim.amps} |->
                             sim.amps[XorBit(i, bit)]]]

\* amplitudes *= -1 for every entry whose bit is set.
PhaseFlip(sim, qubitId) ==
  LET bit == BitOf(sim, qubitId)
  IN [sim EXCEPT !.amps = [i \in DOMAIN sim.amps |->
                             IF BitIsSet(i, bit)
                             THEN << 0 - sim.amps[i][1], 0 - sim.amps[i][2] >>
                             ELSE sim.amps[i]]]

\* prob1 > 0 and prob1 < 1 of #getProb1; an empty state has prob1 = 0.
ProbOnePositive(sim, qubitId) == Weight1(sim, qubitId) > 0

ProbOneBelowOne(sim, qubitId) ==
  Weight1(sim, qubitId) < WeightAll(sim) \/ WeightAll(sim) = 0

\* The t1 branch with t1 = 1: the jump (collapse onto 1, then the flip) has
\* the probability prob1, otherwise the entries with the bit set are scaled
\* by 0 and dropped by the #prune that follows.
Damp(sim, qubitId, t1) ==
  IF t1 = "never" THEN {sim}
  ELSE {FlipBit(collapse(sim, qubitId, 1), qubitId) : x \in
          {y \in {1} : ProbOnePositive(sim, qubitId)}}
       \cup {collapse(sim, qubitId, 0) : x \in
          {y \in {0} : ProbOneBelowOne(sim, qubitId)}}

\* The body of targetQubits.forEach in #applyStochasticNoise.
NoiseOn(sim, qubitId, noise) ==
  LET flipped == {IF f THEN FlipBit(sim, qubitId) ELSE sim :
                    f \in Happens(noise.gateError)}
      dephased == UNION {{IF f THEN PhaseFlip(s, qubitId) ELSE s :
                            f \in Happens(noise.t2)} : s \in flipped}
  IN UNION {Damp(s, qubitId, noise.t1) : s \in dephased}

\* #applyStochasticNoise(op.qubit): the qubits of the gate in their order.
RECURSIVE applyStochasticNoise(_, _, _, _)
applyStochasticNoise(sims, qubits, k, noise) ==
  IF k > Len(qubits) THEN sims
  ELSE applyStochasticNoise(UNION {NoiseOn(s, qubits[k], noise) : s \in sims},
                            qubits, k + 1, noise)

\* measure with a noise model: prob1 becomes 1 - prob1 when
\* Math.random() < readoutError, the result is 1 when Math.random() < prob1,
\* and #collapse keeps the entries of the result whether the state has any.
measure(sim, qubitId, noise) ==
  {r \in {0, 1} :
     \E f \in Happens(noise.readoutError) :
        IF r = 1
        THEN IF f THEN ProbOneBelowOne(sim, qubitId)
                  ELSE ProbOnePositive(sim, qubitId)
        ELSE IF f THEN ProbOnePositive(sim, qubitId)
                  ELSE ProbOneBelowOne(sim, qubitId)}

\* A run that applies the noise channel after MEASURE and RESET too: what C21
\* must tell apart.
ExecuteNoiseAfterAll(sim, op, noise) ==
  IF ~noise.present THEN Execute(sim, op)
  ELSE applyStochasticNoise(
         IF op.arr
         THEN Execute(sim, op)
         ELSE IF op.gate = "RESET"
              THEN {IF r = 1
                    THEN applyGate(collapse(sim, op.qs[1], r), "X", op.qs[1], <<>>)
                    ELSE collapse(sim, op.qs[1], r) :
                    r \in measure(sim, op.qs[1], noise)}
         ELSE IF op.gate = "MEASURE"
              THEN {SetResult(collapse(sim, op.qs[1], r), op.qs[1], r) :
                    r \in measure(sim, op.qs[1], noise)}
         ELSE Execute(sim, op),
         op.qs, 1, noise)

\* The simulators one non-control instruction can leave when the simulator
\* has the noise model `noise` (present FALSE: null).  shouldApplyNoise is cleared by
\* RESET and MEASURE.
ExecuteNoise(sim, op, noise) ==
  IF ~noise.present THEN Execute(sim, op)
  ELSE IF ~op.arr /\ op.gate = "RESET"
       THEN {IF r = 1
             THEN applyGate(collapse(sim, op.qs[1], r), "X", op.qs[1], <<>>)
             ELSE collapse(sim, op.qs[1], r) :
             r \in measure(sim, op.qs[1], noise)}
  ELSE IF ~op.arr /\ op.gate = "MEASURE"
       THEN {SetResult(collapse(sim, op.qs[1], r), op.qs[1], r) :
             r \in measure(sim, op.qs[1], noise)}
  ELSE applyStochasticNoise(Execute(sim, op), op.qs, 1, noise)

\* RunStep of a simulator with a noise model.
RunStepNoise(sim, stack, noise) ==
  LET top == Top(stack)
      op == top.code[top.i]
      Go(s, st) == [sim |-> s, stack |-> st, thrown |-> FALSE]
  IN IF top.i > Len(top.code) THEN {Go(sim, Pop(stack))}
     ELSE IF op.gate = "IF"
          THEN IF CondHolds(sim, op)
               THEN {Go(sim, Append(Advance(stack), Frame(op.body)))}
               ELSE {Go(sim, Advance(stack))}
     ELSE IF op.gate = "WHILE"
          THEN IF CondHolds(sim, op)
               THEN {Go(sim, Append(stack, Frame(op.body)))}
               ELSE {Go(sim, Advance(stack))}
     ELSE IF Raises(sim, op)
          THEN {[sim |-> sim, stack |-> stack, thrown |-> TRUE]}
     ELSE {Go(s, Advance(stack)) : s \in ExecuteNoise(sim, op, noise)}

(***************************************************************************)
(* One instruction list run by a simulator with a noise model.  When the   *)
(* model has gateError = 1 and nothing else, the list with an X put after  *)
(* every gate, on each of its qubits, is then run by a simulator without   *)
(* noise, to compare.                                                      *)
(***************************************************************************)
MaxNoiseLen == 3

NoiseQubits == << 1, 2 >>

NoiseModel(gateError, readoutError, t1, t2) ==
  [present |-> TRUE, gateError |-> gateError, readoutError |-> readoutError,
   t1 |-> t1, t2 |-> t2]

\* noiseModel = null.
NoNoise == [NoiseModel("never", "never", "never", "never") EXCEPT !.present = FALSE]

GateErrorOnly == NoiseModel("always", "never", "never", "never")

NoiseProfiles ==
  { NoNoise, GateErrorOnly,
    NoiseModel("never", "never", "never", "never"),
    NoiseModel("maybe", "never", "never", "never"),
    NoiseModel("never", "always", "never", "never"),
    NoiseModel("never", "maybe", "never", "never"),
    NoiseModel("never", "never", "always", "never"),
    NoiseModel("never", "never", "never", "always"),
    NoiseModel("maybe", "maybe", "always", "maybe") }

NoisePool ==
  { G1("H", 1), G1("X", 1), G1("Z", 1), G2("CNOT", 1, 2), G1("MEASURE", 1),
    G1("MEASURE", 2), G1("RESET", 1),
    Blk("IF", 1, 0, << G1("X", 2) >>),
    Blk("WHILE", 1, 1, << G1("X", 1), G1("MEASURE", 1) >>) }

\* The list with an X after every gate other than MEASURE and RESET, on each
\* qubit of the gate, in the bodies of IF and WHILE too.
RECURSIVE FlipsOn(_, _)
FlipsOn(qubits, k) ==
  IF k > Len(qubits) THEN <<>> ELSE << G1("X", qubits[k]) >> \o FlipsOn(qubits, k + 1)

RECURSIVE WithFlips(_)
WithFlips(code) ==
  IF code = <<>> THEN <<>>
  ELSE LET op == Head(code)
       IN (IF op.gate \in {"IF", "WHILE"}
           THEN << [op EXCEPT !.body = WithFlips(op.body)] >>
           ELSE IF op.gate \in {"MEASURE", "RESET"} THEN << op >>
           ELSE << op >> \o FlipsOn(op.qs, 1))
          \o WithFlips(Tail(code))

NoiseInit ==
  /\ sir \in SeqsUpTo(NoisePool, MaxNoiseLen)
  /\ rprofile \in NoiseProfiles
  /\ sphase = "raw"
  /\ ssim = NewSimulator(NoiseQubits)
  /\ sstack = << Frame(sir) >>
  /\ sraw = << >>
  /\ rlog = <<>> /\ rdoomed = FALSE /\ rnoisy = FALSE
  /\ BIdle /\ CIdle /\ WIdle /\ QIdle /\ KIdle /\ MIdle

\* One step of run under the noise model.
NoiseStep ==
  /\ sphase = "raw"
  /\ sstack # <<>>
  /\ \E r \in RunStepNoise(ssim, sstack, rprofile) :
       /\ ~r.thrown
       /\ ssim' = r.sim
       /\ sstack' = r.stack
  /\ UNCHANGED << sir, sphase, sraw, rvars, bvars, cvars, wvars, qvars, kvars, mvars >>

\* run has returned; the comparison run starts on a new simulator.
NoiseReturn ==
  /\ sphase = "raw"
  /\ sstack = <<>>
  /\ sraw' = ssim
  /\ IF rprofile = GateErrorOnly
     THEN /\ ssim' = NewSimulator(NoiseQubits)
          /\ sstack' = << Frame(WithFlips(sir)) >>
          /\ sphase' = "flips"
     ELSE /\ sphase' = "done"
          /\ UNCHANGED << ssim, sstack >>
  /\ UNCHANGED << sir, rvars, bvars, cvars, wvars, qvars, kvars, mvars >>

\* One step of the comparison run, without noise.
FlipsStep ==
  /\ sphase = "flips"
  /\ sstack # <<>>
  /\ \E r \in RunStep(ssim, sstack) :
       /\ ~r.thrown
       /\ ssim' = r.sim
       /\ sstack' = r.stack
  /\ UNCHANGED << sir, sphase, sraw, rvars, bvars, cvars, wvars, qvars, kvars, mvars >>

FlipsReturn ==
  /\ sphase = "flips"
  /\ sstack = <<>>
  /\ sphase' = "done"
  /\ UNCHANGED << sir, ssim, sstack, sraw, rvars, bvars, cvars, wvars, qvars, kvars, mvars >>

NoiseNext == NoiseStep \/ NoiseReturn \/ FlipsStep \/ FlipsReturn

SpecNoise == NoiseInit /\ [][NoiseNext]_vars

\* C21: with a noise model the noise channel is applied once after every gate
\* executed other than MEASURE and RESET, to each qubit of the gate, in the
\* bodies of IF and WHILE too, and never after MEASURE or RESET: with
\* gateError = 1 a list without H ends in the state and with the results of
\* the list that has an X after each such gate, run without noise; X then
\* MEASURE gives 0, and a RESET that ends the list leaves its qubit |0>.
C21_NoiseAfterEveryGate ==
  (rprofile = GateErrorOnly /\ ~HasGate(sir, "H") /\ sir # <<>>) =>
    /\ sphase = "done" => (ssim.amps = sraw.amps /\ ssim.results = sraw.results)
    /\ (sphase \in {"flips", "done"} /\ sir = << G1("X", 1), G1("MEASURE", 1) >>)
         => getResult(sraw, 1) = 0
    /\ (sphase \in {"flips", "done"} /\ sir[Len(sir)] = G1("RESET", 1))
         => isZero(sraw, 1)

\* The noise after X flipped qubit 1 back, MEASURE gave 0, the IF on 0 ran its
\* body, and the noise after the body's X undid it.
C21_Witness ==
  /\ sphase = "done" /\ rprofile = GateErrorOnly
  /\ sir = << G1("X", 1), G1("MEASURE", 1), Blk("IF", 1, 0, << G1("X", 2) >>) >>
  /\ getResult(sraw, 1) = 0
  /\ sraw.amps = ssim.amps
  /\ DOMAIN sraw.amps = {0}

\* A pruned list A, M, A of single-qubit instructions on one qubit, A and M
\* two different gates among S, T and RZ, none an identity.
PhaseSandwich ==
  /\ Sandwich
  /\ cin[1].gate \in {"S", "T", "RZ"}
  /\ ~cin[2].arr /\ cin[2].qs = cin[1].qs
  /\ cin[2].gate \in {"S", "T", "RZ"} \ {cin[1].gate}

\* C22: lookback honours the table's single-qubit entries: S, T and RZ on one
\* qubit commute pairwise, so the lookback of the third instruction passes
\* the second and pairs with the first; the output is shorter than the
\* input and ends with the second instruction (prune([S, T, S]) = [Z, T]).
C22_SingleQubitEntriesHonoured ==
  PhaseSandwich =>
    /\ Len(cout) < 3
    /\ cout # <<>> /\ cout[Len(cout)] = cin[2]
    /\ (cin[1].gate = "S" => cout = << [cin[1] EXCEPT !.gate = "Z"], cin[2] >>)

\* C23: measure, and the RESET built on it, never collapses the state onto an
\* outcome of probability zero: under any noise model the simulator's state
\* holds at least one basis entry after every instruction.
C23_StateKeepsAnEntry == DOMAIN ssim.amps # {}

\* C24: when the callback throws, the cleanup still runs: the final flush
\* executes the pending instructions and returns, release is attempted for
\* the handles in allocation order, and Q.use throws the callback's error if
\* every qubit is |0> and the release error if one is not.
C24_CleanupRunsOnThrow ==
  (last.event = "exit" /\ last.callback # "none") =>
    /\ last.flushed
    /\ last.culprit = Null => last.error = last.callback
    /\ last.culprit # Null => last.error = FatalError

\* The same for the scopes whose final flush returned.
C24_AfterFlushReturned ==
  (last.event = "exit" /\ last.callback # "none" /\ last.flushed) =>
    /\ last.culprit = Null => last.error = last.callback
    /\ last.culprit # Null => last.error = FatalError

\* The strictly increasing maps from the positions of `out` to those of `inp`.
Embeddings(out, inp) ==
  {f \in [DOMAIN out -> DOMAIN inp] :
     \A i \in DOMAIN out, j \in DOMAIN out : i < j => f[i] < f[j]}

\* C25: prune never removes, rewrites or reorders a multi-qubit instruction:
\* the output's instructions sit, in order, at positions of the input (the
\* instruction of that position, or a single-qubit instruction rewritten on
\* the same qubit), and every CNOT, CZ, SWAP, RZZ and CCX of the input is in
\* the output at its position; the output is no longer than the input.
C25_MultiQubitKeptInOrder ==
  cfn = "prune" =>
    /\ Len(cout) <= Len(cin)
    /\ \E f \in Embeddings(cout, cin) :
         /\ \A k \in DOMAIN cout :
              \/ cout[k] = cin[f[k]]
              \/ ~cout[k].arr /\ ~cin[f[k]].arr /\ cout[k].qs = cin[f[k]].qs
         /\ \A j \in DOMAIN cin :
              cin[j].arr => \E k \in DOMAIN cout : f[k] = j /\ cout[k] = cin[j]

\* S, a CZ controlled by the same qubit, S: a Z in the first place, the CZ
\* after it.
C25_Witness ==
  /\ cfn = "prune" /\ Len(cin) = 3
  /\ cin[1] = G1("S", 1) /\ cin[2] = G2("CZ", 1, 2) /\ cin[3] = G1("S", 1)
  /\ cout = << G1("Z", 1), G2("CZ", 1, 2) >>

\* The nodes of the input list as the call of prune has left them.
InputAfterPrune == PruneSweep(cin).input

\* C26: prune does not modify the nodes of its input: after the call every
\* node of the input list has the gate and the params it had, so a second
\* call of prune on the same list returns what the first returned.
C26_PruneLeavesInputNodes ==
  cfn = "prune" =>
    /\ \A k \in DOMAIN cin :
         /\ InputAfterPrune[k].gate = cin[k].gate
         /\ InputAfterPrune[k].params = cin[k].params
    /\ prune(InputAfterPrune) = cout

\* The sweep rewrote a pair of S into a Z or a pair of T into an S.
PhasePairRewritten ==
  \E k \in DOMAIN cin : InputAfterPrune[k].gate # cin[k].gate

\* C27 as claimed: prune(prune(ir)) = prune(ir) for every ir.
C27_PruneIdempotent == cfn = "prune" => prune(cout) = cout

\* C27 amended: prune(prune(ir)) = prune(ir) for every ir in whose sweep no
\* pair of S is rewritten into a Z and no pair of T into an S.
C27_IdempotentWithoutPhaseRewrite ==
  (cfn = "prune" /\ ~PhasePairRewritten) => prune(cout) = cout

\* Two H cancelled after an X: the output is the X, and stays it.
C27_Witness ==
  /\ cfn = "prune" /\ ~PhasePairRewritten
  /\ cin = << G1("X", 1), G1("H", 1), G1("H", 1) >>
  /\ cout = << G1("X", 1) >>

(***************************************************************************)
(* The recorder alone: the calls a callback makes between Q.use and its    *)
(* return, with every multi-qubit operation of the capability set.  The    *)
(* menu of SpecScope leaves rzz and ccx out; here nothing is flushed, so   *)
(* the IR holds every instruction the recorder appended.                   *)
(***************************************************************************)
RecorderGate2Menu == {"cnot", "cz", "swap"}

RecorderNext ==
  \/ \E count \in 1..MaxQubits : Use(count)
  \/ \E op \in RecorderGate2Menu, a \in Handles, b \in Handles :
       GateCall(Call(op, <<a, b>>, <<>>))
  \/ \E a \in Handles, b \in Handles : GateCall(Call("rzz", <<a, b>>, << Pi >>))
  \/ \E a \in Handles, b \in Handles, c \in Handles :
       GateCall(Call("ccx", <<a, b, c>>, <<>>))
  \/ \E op \in {"if", "while"}, q \in Handles, value \in {0, 1} :
       OpenBlock(Call(op, <<q>>, <<>>), value)
  \/ CloseBlock

SpecRecorder == ScopeInit /\ [][RecorderNext]_vars

MultiQubitGates == {"CNOT", "CZ", "SWAP", "RZZ", "CCX"}

PairwiseDistinct(qs) == \A i \in DOMAIN qs, j \in DOMAIN qs : i # j => qs[i] # qs[j]

\* Every multi-qubit instruction of the list, bodies of IF and WHILE included,
\* names pairwise distinct qubits.
RECURSIVE DistinctQubitsIn(_)
DistinctQubitsIn(ops) ==
  \A k \in DOMAIN ops :
    /\ ops[k].gate \in MultiQubitGates => PairwiseDistinct(ops[k].qs)
    /\ DistinctQubitsIn(ops[k].body)

\* C28: every CNOT, CZ, SWAP, RZZ and CCX the recorder appended to an IR, the
\* top-level circuit or the sub-circuit of an if or a while, references
\* pairwise distinct qubits.
C28_MultiQubitDistinct ==
  \A s \in DOMAIN scopes :
    /\ DistinctQubitsIn(scopes[s].ops)
    /\ \A b \in DOMAIN scopes[s].blocks : DistinctQubitsIn(scopes[s].blocks[b].ops)

\* The same for the operations that check: CNOT, CZ and SWAP never repeat a
\* handle.
C28_CheckedOperationsDistinct ==
  \A s \in DOMAIN scopes :
    \A k \in DOMAIN scopes[s].ops :
      scopes[s].ops[k].gate \in {"CNOT", "CZ", "SWAP"} =>
        PairwiseDistinct(scopes[s].ops[k].qs)

(***************************************************************************)
(* The simulator with its indices as the code stores them.  A basis index  *)
(* is the set of its set bit positions; the masks are BigInts, 1n << k,    *)
(* with no width, and the buffers are BigUint64Arrays, which keep a value  *)
(* modulo 2^64.  The entries are kept in buffer order, two entries with    *)
(* the same stored index included.  An amplitude is an exact Gaussian      *)
(* integer over sqrt(den), den shared by all entries, so the sum of        *)
(* |amp|^2 is known and not assumed to be 1.  The qubit allocated k-th     *)
(* (from 0) has position k.  The gates are X and H, whose matrices are     *)
(* those of the U3 gates the compiler emits for them.                      *)
(***************************************************************************)
IndexBits == 64

\* indices[bPos] = idx on a BigUint64Array: idx modulo 2^IndexBits.
Stored(idx) == {k \in idx : k < IndexBits}

\* new Simulator(qubits) of a scope of count qubits.
NewSimulator64(count) ==
  [count |-> count, entries |-> << [idx |-> {}, amp |-> <<1, 0>>] >>, den |-> 1]

\* collisionMap.get(tIdx): the buffer position of the key, 0 for undefined.
CollisionAt(aux, key) ==
  IF \E j \in DOMAIN aux : aux[j].idx = key
  THEN CHOOSE j \in DOMAIN aux : aux[j].idx = key
  ELSE 0

\* The body of applyGate's inner loop: a new buffer entry for a key the map
\* does not hold, then #updateState.
UpdateState(aux, key, amp) ==
  LET bPos == CollisionAt(aux, key)
  IN IF bPos = 0 THEN Append(aux, [idx |-> key, amp |-> amp])
     ELSE [aux EXCEPT ![bPos].amp = CAdd(@, amp)]

\* applyGate's loop over the active entries from the i-th on; aux holds the
\* keys of the collision map with the amplitudes gathered so far.
RECURSIVE Scatter(_, _, _, _, _)
Scatter(entries, i, aux, pos, matrix) ==
  IF i > Len(entries) THEN aux
  ELSE LET idx == entries[i].idx
           col == IF pos \in idx THEN 1 ELSE 0
           base == idx \ {pos}
           row0 == UpdateState(aux, base, CMul(entries[i].amp, matrix[col + 1]))
           row1 == UpdateState(row0, base \cup {pos},
                               CMul(entries[i].amp, matrix[2 + col + 1]))
       IN Scatter(entries, i + 1, row1, pos, matrix)

\* #prune: the entries of magnitude zero leave the buffer.
Prune64(entries) ==
  LET Live(e) == e.amp # CZero
  IN SelectSeq(entries, Live)

\* The square of the factor the matrix of GATES leaves out.
GateDen(gateName) == IF gateName = "H" THEN 2 ELSE 1

\* applyGate on the qubit at position pos.
applyGate64(sim, gateName, pos) ==
  LET aux == Scatter(sim.entries, 1, <<>>, pos, GATES(gateName, <<>>))
      written == [j \in DOMAIN aux |->
                    [idx |-> Stored(aux[j].idx), amp |-> aux[j].amp]]
  IN [sim EXCEPT !.entries = Prune64(written), !.den = @ * GateDen(gateName)]

\* #getProb1 times den.
RECURSIVE Prob1Times(_, _, _)
Prob1Times(entries, i, pos) ==
  IF i > Len(entries) THEN 0
  ELSE (IF pos \in entries[i].idx THEN MagSq(entries[i].amp) ELSE 0)
       + Prob1Times(entries, i + 1, pos)

\* measure without a noise model: Math.random() < prob1.
MeasureOutcomes64(sim, pos) ==
  {r \in {0, 1} : IF r = 1 THEN Prob1Times(sim.entries, 1, pos) > 0
                  ELSE Prob1Times(sim.entries, 1, pos) < sim.den}

\* #collapse: the matching entries, divided by sqrt(prob1) or sqrt(1 - prob1).
collapse64(sim, pos, result) ==
  LET p == Prob1Times(sim.entries, 1, pos)
      Match(e) == (pos \in e.idx) = (result = 1)
  IN [sim EXCEPT !.entries = SelectSeq(sim.entries, Match),
                 !.den = IF result = 1 THEN p ELSE sim.den - p]

MaxBitSteps == 4

\* The sizes of scope tried, and the positions operated on and observed.
ScopeSizes == {2, IndexBits, IndexBits + 1}
Positions == {0, 1, IndexBits - 1, IndexBits}

Observed(count) == {p \in Positions : p < count}

\* Q.use(count, callback) up to the call of the callback.
Use64(count) ==
  /\ bcount = 0
  /\ bcount' = count
  /\ bsim' = NewSimulator64(count)
  /\ blast' = [event |-> "use"]
  /\ UNCHANGED << bsteps, cvars, wvars, svars, qvars, kvars, mvars, rvars >>

\* A flush that runs one gate on the qubit at position pos.
Gate64(gateName, pos) ==
  /\ bcount > 0
  /\ pos < bcount
  /\ bsteps < MaxBitSteps
  /\ bsim' = applyGate64(bsim, gateName, pos)
  /\ blast' = [event |-> "gate", pos |-> pos,
               before |-> [p \in Observed(bcount) |-> MeasureOutcomes64(bsim, p)]]
  /\ bsteps' = bsteps + 1
  /\ UNCHANGED << bcount, cvars, wvars, svars, qvars, kvars, mvars, rvars >>

\* m on the qubit at position pos.
Measure64(pos) ==
  /\ bcount > 0
  /\ pos < bcount
  /\ bsteps < MaxBitSteps
  /\ \E r \in MeasureOutcomes64(bsim, pos) :
       /\ bsim' = collapse64(bsim, pos, r)
       /\ blast' = [event |-> "m", pos |-> pos, result |-> r]
  /\ bsteps' = bsteps + 1
  /\ UNCHANGED << bcount, cvars, wvars, svars, qvars, kvars, mvars, rvars >>

BitsInit == CIdle /\ WIdle /\ SIdle /\ QIdle /\ XIdle

BitsNext ==
  \/ \E count \in ScopeSizes : Use64(count)
  \/ \E gateName \in {"X", "H"}, pos \in Positions : Gate64(gateName, pos)
  \/ \E pos \in Positions : Measure64(pos)

SpecBits == BitsInit /\ [][BitsNext]_vars

\* The qubits of the scope have masks that are stored as distinct single bits.
SingleBitMasks ==
  \A p \in 0..(bcount - 1), q \in 0..(bcount - 1) :
    /\ Stored({p}) = {p}
    /\ p # q => Stored({p}) # Stored({q})

\* The gate just applied left what every other observed qubit can measure
\* as it was.
OthersUntouched ==
  blast.event = "gate" =>
    \A p \in DOMAIN blast.before :
      p # blast.pos => MeasureOutcomes64(bsim, p) = blast.before[p]

\* C29: in a scope the handles map to distinct single-bit masks of the
\* 64-bit index, a gate on one qubit never changes the measured value of
\* another qubit of the scope, and no scope exists with a qubit position
\* outside the 64-bit index.
C29_ScopeWithinIndex ==
  bcount > 0 => /\ bcount <= IndexBits
                /\ SingleBitMasks
                /\ OthersUntouched

\* The part about the masks and the gates, for the scopes of at most 64
\* qubits.
C29_MasksWithinIndex ==
  (bcount > 0 /\ bcount <= IndexBits) => SingleBitMasks /\ OthersUntouched

\* The part about the gates, for every scope Q.use makes.
C29_OthersUntouched == OthersUntouched

====
